---- MODULE Spec2Model ----
(***************************************************************************)
(* A model of the transport layer of azopenai (package rest): the          *)
(* streaming call CompletionsStream / stream with its two goroutines, two  *)
(* channels, response body and context, and the synchronous call send with *)
(* its structured errors (specErr); the Authorizer of package auth; and   *)
(* the endpoint cache of the rest client.                                  *)
(*                                                                         *)
(* Bytes are sequences of symbols.  The framing bytes of a streamed line   *)
(* are single characters; a JSON document inside a line or a body is one   *)
(* symbol ("J1" stands for the bytes of a JSON object that decodes into    *)
(* completions.Resp, "X" for bytes that are no JSON).                      *)
(***************************************************************************)
EXTENDS Integers, Sequences, FiniteSets, TLC

\* ------------------------------------------------------------------------
\* Bounds of the model
\* ------------------------------------------------------------------------
\* Longest streamed response body, in lines.
MaxLines == 3
\* Longest response body of a send call, in symbols.
MaxBody == 3
\* Most requests one client authorizes.
MaxRequests == 3
\* Callers of endpoints.url at the same time, and calls they make in all.
NProcs == 2
MaxResolves == 3
\* Most entries of a response, and the largest index among them.
MaxEntries == 3
MaxIndex == 2

\* ------------------------------------------------------------------------
\* Program constants
\* ------------------------------------------------------------------------
\* make(chan StreamRecv[...], 1) in CompletionsStream and in stream.
ChanCap == 1
\* http.StatusOK
StatusOK == 200

\* var streamDone = []byte("[DONE]")
streamDone == <<"[", "D", "O", "N", "E", "]">>
\* var streamHeader = []byte("data: ")
streamHeader == <<"d", "a", "t", "a", ":", " ">>

\* ------------------------------------------------------------------------
\* package bytes: the functions the read loop applies to a line
\* ------------------------------------------------------------------------
\* unicode.IsSpace on the symbols that occur in a line.
IsSpace(c) == c \in {" ", "\t", "\n", "\r"}

RECURSIVE TrimLeft(_)
TrimLeft(s) ==
    IF s = <<>> THEN <<>>
    ELSE IF IsSpace(Head(s)) THEN TrimLeft(Tail(s))
    ELSE s

RECURSIVE TrimRight(_)
TrimRight(s) ==
    IF s = <<>> THEN <<>>
    ELSE IF IsSpace(s[Len(s)]) THEN TrimRight(SubSeq(s, 1, Len(s) - 1))
    ELSE s

\* bytes.TrimSpace
TrimSpace(s) == TrimRight(TrimLeft(s))

\* bytes.HasPrefix
HasPrefix(s, prefix) ==
    /\ Len(s) >= Len(prefix)
    /\ SubSeq(s, 1, Len(prefix)) = prefix

\* bytes.TrimPrefix
TrimPrefix(s, prefix) ==
    IF HasPrefix(s, prefix) THEN SubSeq(s, Len(prefix) + 1, Len(s)) ELSE s

\* ------------------------------------------------------------------------
\* Errors and messages
\* ------------------------------------------------------------------------
\* An error value.  kind "nil" is the nil error; "JSON" and "StatusCode" are
\* errors.JSON and errors.StatusCode; "wrap" is fmt.Errorf("...: %w", err)
\* around the error named by inner; every other kind is an opaque error of
\* a collaborator (the transport, the credential, bufio).
MkErr(kind, message, json, code, inner) ==
    [kind |-> kind, Message |-> message, JSON |-> json,
     StatusCode |-> code, inner |-> inner]

NilErr == MkErr("nil", <<>>, {}, 0, "")
PlainErr(kind) == MkErr(kind, <<>>, {}, 0, "")
WrapErr(text, e) == MkErr("wrap", <<>>, {}, 0, text \o ": " \o e.kind)

\* A []byte result: nil, or the bytes v.
NilBytes == [isNil |-> TRUE, v |-> <<>>]
Bytes(v) == [isNil |-> FALSE, v |-> v]

\* StreamRecv[[]byte] of stream, StreamRecv[completions.Resp] of
\* CompletionsStream.  Data <<>> is the zero value of Data.
StreamRecv(data, err) == [Data |-> data, Err |-> err]

\* ------------------------------------------------------------------------
\* encoding/json on the documents of the model
\* ------------------------------------------------------------------------
\* json.Unmarshal(data, &msg) with msg a completions.Resp: the symbols J1
\* and J2 are JSON objects and decode into the responses <<"R1">> and
\* <<"R2">>; everything else (the empty input of an error message, bytes
\* that are no JSON) is an error.
UnmarshalResp(data) ==
    IF data = <<"J1">> THEN [err |-> NilErr, msg |-> <<"R1">>]
    ELSE IF data = <<"J2">> THEN [err |-> NilErr, msg |-> <<"R2">>]
    ELSE [err |-> PlainErr("json.SyntaxError"), msg |-> <<>>]

\* The members a JSON object of the model can have: symbol -> (key, value).
Members == {"e1", "e2"}
MemberPair(m) == IF m = "e1" THEN <<"error", 1>> ELSE <<"code", 2>>

\* json.Unmarshal(msg, &m) with m a map[string]any: succeeds on a JSON
\* object "{" members "}" with the decoded mapping, and on the JSON value
\* null, which sets the map to nil (no entries); fails on everything else,
\* truncated objects and the empty input included.
UnmarshalMap(msg) ==
    IF /\ Len(msg) >= 2
       /\ msg[1] = "{"
       /\ msg[Len(msg)] = "}"
       /\ \A i \in 2..(Len(msg) - 1) : msg[i] \in Members
    THEN [ok |-> TRUE, m |-> {MemberPair(msg[i]) : i \in 2..(Len(msg) - 1)}]
    ELSE IF msg = <<"null">> THEN [ok |-> TRUE, m |-> {}]
    ELSE [ok |-> FALSE, m |-> {}]

\* specErr without the JSON variant.
specErr_NoJSON(code, read) == MkErr("StatusCode", read.b, {}, code, "")

\* ------------------------------------------------------------------------
\* specErr: the structured error of a non-200 response
\* ------------------------------------------------------------------------
\* read is what io.ReadAll(resp.Body) returned: the bytes read and whether
\* it returned an error.
specErr(code, read) ==
    IF read.failed
    THEN MkErr("StatusCode", read.b, {}, code, "")
    ELSE IF ~UnmarshalMap(read.b).ok
    THEN MkErr("StatusCode", read.b, {}, code, "")
    ELSE MkErr("JSON", read.b, UnmarshalMap(read.b).m, code, "")

\* ------------------------------------------------------------------------
\* package auth: the Authorizer
\* ------------------------------------------------------------------------
\* const ( unknown = iota; useApiKey; useAzIdentity )
unknown == 0
useApiKey == 1
useAzIdentity == 2

\* An Authorizer: ApiKey ("" is the empty string), AzIdentity.Credential
\* ("nil" is the nil interface), AzIdentity.Policy ("zero" is the zero
\* TokenRequestOptions) and the unexported method.
Authorizer(key, cred, policy, method) ==
    [ApiKey |-> key, Credential |-> cred, Policy |-> policy, method |-> method]
ZeroAuthorizer == Authorizer("", "nil", "zero", unknown)

\* The Authorizers a caller can build: the method is unexported and zero.
AuthInputs ==
    {Authorizer(k, c, p, unknown) :
        k \in {"", "key"}, c \in {"nil", "cred"}, p \in {"zero", "scopes"}}

\* reflect.ValueOf(a).IsZero()
IsZero(a) == a = ZeroAuthorizer

\* AzIdentity.validate accepting a nil Credential.
validate_Lenient(a) == NilErr

\* AzIdentity.validate
validate(a) ==
    IF a.Credential = "nil" THEN PlainErr("missing Credential") ELSE NilErr

\* Validate choosing the credential over the API key when both are set.
Validate_PreferIdentity(a) ==
    IF IsZero(a)
    THEN [auth |-> ZeroAuthorizer,
          err |-> PlainErr("Authorizer must have ApiKey or AzIdentity set")]
    ELSE IF a.ApiKey # "" /\ a.Credential = "nil"
    THEN [auth |-> [a EXCEPT !.method = useApiKey], err |-> NilErr]
    ELSE IF validate(a) # NilErr
    THEN [auth |-> ZeroAuthorizer, err |-> validate(a)]
    ELSE [auth |-> [a EXCEPT !.method = useAzIdentity], err |-> NilErr]

\* Authorizer.Validate: the Authorizer with its method set, or an error.
Validate(a) ==
    IF IsZero(a)
    THEN [auth |-> ZeroAuthorizer,
          err |-> PlainErr("Authorizer must have ApiKey or AzIdentity set")]
    ELSE IF a.ApiKey # ""
    THEN [auth |-> [a EXCEPT !.method = useApiKey], err |-> NilErr]
    ELSE IF validate(a) # NilErr
    THEN [auth |-> ZeroAuthorizer, err |-> validate(a)]
    ELSE [auth |-> [a EXCEPT !.method = useAzIdentity], err |-> NilErr]

\* An azcore.AccessToken, and what Credential.GetToken can return: a token
\* (the credential may hand out the same token again) or an error.
AccessToken(token, expires) == [Token |-> token, ExpiresOn |-> expires]
ZeroToken == AccessToken("", "")
TokenResults ==
    {[tok |-> AccessToken(t, "2023-05-01 12:00:00 +0000 UTC"), err |-> NilErr] :
        t \in {"t1", "t2"}}
    \cup {[tok |-> ZeroToken, err |-> PlainErr("GetToken")]}

\* fmt.Sprintf("Bearer %s", t) with t the AccessToken: the verb %s prints a
\* struct as its fields in braces, separated by a space.
SprintfBearer(t) == <<"Bearer ", "{", t.Token, " ", t.ExpiresOn, "}">>

\* Authorize never asking the credential.
CallsGetToken_Never(a) == FALSE

\* Whether Authorize asks the credential for a token.
CallsGetToken(a) == a.method # unknown /\ a.method # useApiKey

\* Authorizer.Authorize, with got what GetToken returns if it is called:
\* the error returned and the headers added to the request.
Authorize(a, got) ==
    IF a.method = unknown
    THEN [err |-> PlainErr("unknown authorization method"), hdr |-> <<>>]
    ELSE IF a.method = useApiKey
    THEN [err |-> NilErr, hdr |-> << <<"api-key", <<a.ApiKey>> >> >>]
    ELSE IF got.err # NilErr
    THEN [err |-> got.err, hdr |-> <<>>]
    ELSE [err |-> NilErr,
          hdr |-> << <<"Authorization", SprintfBearer(got.tok)>>,
                     <<"Content-Type", <<"application/json">> >> >>]

\* rest.New: validates the Authorizer and builds the client around the
\* validated one; http is the *http.Client of WithClient, or "nil".
NoClient == [ok |-> FALSE, auth |-> ZeroAuthorizer, http |-> "nil", err |-> NilErr]
RestNew(a, http) ==
    IF Validate(a).err # NilErr
    THEN [ok |-> FALSE, auth |-> ZeroAuthorizer, http |-> "nil",
          err |-> Validate(a).err]
    ELSE [ok |-> TRUE, auth |-> Validate(a).auth,
          http |-> IF http = "nil" THEN "default" ELSE http,
          err |-> NilErr]

\* azopenai.New: the client around the rest client, or rest.New's error.
AzNew(a, http) == RestNew(a, IF http = "nil" THEN "default" ELSE http)

\* The Authorizers of the clients New returns.
ClientAuths == {Validate(a).auth : a \in {x \in AuthInputs : Validate(x).err = NilErr}}

\* A call of a collaborator, in the record of calls: the operation, the
\* error it returned and whom it concerned.
Ev(op, err) == [op |-> op, err |-> err]

\* ------------------------------------------------------------------------
\* endpoints: the URLs of the service, by endpoint type and deployment
\* ------------------------------------------------------------------------
\* A string is the sequence of its pieces: the separators of a URL
\* (":", "/", "?", "#") and the runs of characters between them.  "%zz"
\* stands for a percent sign that no two hexadecimal digits follow.
APIVersion == <<"2023-03-15-preview">>

completionsTmpl == "completions"
embeddingsTmpl == "embeddings"
chatTmpl == "chat"
EndpointTypes == {completionsTmpl, embeddingsTmpl, chatTmpl}

templVars(resource, deployment, version) ==
    [ResourceName |-> resource, DeploymentID |-> deployment,
     APIVersion |-> version]

\* The vars of a client New has made for the resource "test".
ClientVars == templVars(<<"test">>, <<>>, APIVersion)

\* The deployment IDs callers pass: two names and one url.Parse rejects.
DeploymentIDs == {<<"deployment1">>, <<"deployment2">>, <<"%zz">>}

\* What follows {{.DeploymentID}}/ in the template of an endpoint type.
TemplPath(et) ==
    CASE et = completionsTmpl -> <<"completions">>
      [] et = embeddingsTmpl  -> <<"embeddings">>
      [] et = chatTmpl        -> <<"chat", "/", "completions">>

\* e.temps.ExecuteTemplate(b, string(et), vars): text/template writes the
\* fields as they are, without escaping.
ExecuteTemplate(et, v) ==
    <<"https", ":", "/", "/">> \o v.ResourceName
       \o <<".openai.azure.com", "/", "openai", "/", "deployments", "/">>
       \o v.DeploymentID \o <<"/">> \o TemplPath(et)
       \o <<"?", "api-version=">> \o v.APIVersion

\* *url.URL: nil, or the parts url.Parse found.
URL(scheme, host, path, query, fragment) ==
    [isNil |-> FALSE, Scheme |-> scheme, Host |-> host, Path |-> path,
     RawQuery |-> query, Fragment |-> fragment]
NilURL == [isNil |-> TRUE, Scheme |-> <<>>, Host |-> <<>>, Path |-> <<>>,
           RawQuery |-> <<>>, Fragment |-> <<>>]

\* strings.Cut(s, sep): what is before the first sep, what is after it and
\* whether there is one.
Cut(s, sep) ==
    LET at == {i \in 1..Len(s) : s[i] = sep}
    IN  IF at = {}
        THEN [before |-> s, after |-> <<>>, found |-> FALSE]
        ELSE LET i == CHOOSE x \in at : \A y \in at : x <= y
             IN  [before |-> SubSeq(s, 1, i - 1),
                  after |-> SubSeq(s, i + 1, Len(s)), found |-> TRUE]

\* url.Parse(rawURL): the fragment is cut off at the first "#", the scheme
\* at the first ":", the query at the first "?"; after "//" the host runs
\* to the next "/"; the rest is the path, which must unescape.
Parse(rawURL) ==
    LET frag    == Cut(rawURL, "#")
        hasSch  == Len(frag.before) >= 2 /\ frag.before[2] = ":"
        scheme  == IF hasSch THEN <<frag.before[1]>> ELSE <<>>
        rest    == IF hasSch THEN SubSeq(frag.before, 3, Len(frag.before))
                   ELSE frag.before
        query   == Cut(rest, "?")
        hasAuth == HasPrefix(query.before, <<"/", "/">>)
        noAuth  == IF hasAuth THEN SubSeq(query.before, 3, Len(query.before))
                   ELSE query.before
        auth    == Cut(noAuth, "/")
        host    == IF hasAuth THEN auth.before ELSE <<>>
        path    == IF ~hasAuth THEN noAuth
                   ELSE IF auth.found THEN <<"/">> \o auth.after ELSE <<>>
        badEsc  == \E i \in 1..Len(path) : path[i] = "%zz"
    IN  IF badEsc
        THEN [u |-> NilURL, err |-> PlainErr("url.Error")]
        ELSE [u |-> URL(scheme, host, path, query.after, frag.after),
              err |-> NilErr]

\* (*url.URL).String()
String(u) ==
    (IF u.Scheme = <<>> THEN <<>> ELSE u.Scheme \o <<":">>)
       \o (IF u.Host = <<>> THEN <<>> ELSE <<"/", "/">> \o u.Host)
       \o u.Path
       \o (IF u.RawQuery = <<>> THEN <<>> ELSE <<"?">> \o u.RawQuery)
       \o (IF u.Fragment = <<>> THEN <<>> ELSE <<"#">> \o u.Fragment)

\* endpoints.set: the template of the type is executed and its text parsed.
set(et, v) == Parse(ExecuteTemplate(et, v))

\* deployments: nil, or a map from deployment IDs to URLs; a key the map
\* does not hold reads as nil.
NoDeployments == [d \in DeploymentIDs |-> NilURL]
NilDeployments == [isNil |-> TRUE, d |-> NoDeployments]

\* deploy := e.m[eType], made and put into e.m when it is nil
Deploy_Fresh(mm, et) == [isNil |-> FALSE, d |-> NoDeployments]

Deploy(mm, et) ==
    IF mm[et].isNil THEN [isNil |-> FALSE, d |-> NoDeployments] ELSE mm[et]

\* e.m[eType][deploymentID] = u
Store_Dropped(deploy, id, u) == deploy

\* The store that leaves the URL alone in the map of its type.
Store_Alone(deploy, id, u) ==
    [isNil |-> FALSE, d |-> [NoDeployments EXCEPT ![id] = u]]

Store(deploy, id, u) == [deploy EXCEPT !.d[id] = u]

\* vars.DeploymentID = deploymentID, on url's own copy of the vars
WithDeployment_Stale(v, id) == v

WithDeployment(v, id) == [v EXCEPT !.DeploymentID = id]

\* e.mu.Lock() returns when no caller holds the mutex (0: nobody).
CanLock_NoMutex(holder) == TRUE

CanLock(holder) == holder = 0

\* The callers of endpoints.url.
Procs == 1..NProcs

\* A caller that is not in url.
NotInURL ==
    [pc |-> "idle", eType |-> completionsTmpl, deploymentID |-> <<>>,
     vars |-> ClientVars, u |-> NilURL, err |-> NilErr, did |-> FALSE,
     raced |-> FALSE]

\* ------------------------------------------------------------------------
\* Inputs of a call
\* ------------------------------------------------------------------------
\* The lines a streamed body is made of (without the line feed).
LineJ1   == streamHeader \o <<"J1">>              \* data: <JSON 1>
LineJ2   == <<" ">> \o streamHeader \o <<"J2", "\r">> \* the same, CRLF-framed
LineX    == streamHeader \o <<"X">>               \* data: <not JSON>
LineDone == streamHeader \o streamDone            \* data: [DONE]
LineNone == <<>>                                  \* blank separator
LineSamples == {LineJ1, LineJ2, LineX, LineDone, LineNone}

\* The streamed bodies: up to MaxLines lines.
Wires == UNION {[1..n -> LineSamples] : n \in 0..MaxLines}

\* How a streamed body ends when the peer stops sending.
WireEnds == {"io.EOF", "io.ErrUnexpectedEOF"}

\* The symbols and the bodies of a non-streamed response.
BodySymbols == {"{", "}", "e1", "e2", "null", "X"}
Bodies == UNION {[1..n -> BodySymbols] : n \in 0..MaxBody}

\* The status codes the service answers with.
Statuses == {StatusOK, 404, 500}

\* ------------------------------------------------------------------------
\* State
\* ------------------------------------------------------------------------
VARIABLES
    csPC,            \* CompletionsStream, the part that runs in the caller
    goPC,            \* the goroutine CompletionsStream starts
    loopPC,          \* the goroutine stream starts (the read loop)
    ch,              \* CompletionsStream's channel: the messages buffered
    chClosed,        \* ... and whether it is closed
    responses,       \* stream's channel: the messages buffered
    responsesClosed, \* ... and whether it is closed
    hold,            \* the message the CompletionsStream goroutine sends next
    loopMsg,         \* the message the read loop sends next
    status,          \* resp.StatusCode
    wire,            \* the lines of the streamed body (200)
    wireOpen,        \* the last line of the body has no line feed
    wireEnd,         \* the error the body reports at its end
    body,            \* the body of a non-streamed response
    read,            \* what io.ReadAll(resp.Body) returned
    fetched,         \* complete lines the bufio.Reader has taken from the body
    nRead,           \* lines ReadBytes has returned to the loop
    bodyClosed,      \* resp.Body.Close() has run
    bioInUse,        \* the loop holds a reader of bufIOs
    buffOut,         \* buffers of requestsBuff borrowed and not returned
    ctxDone,         \* the caller's context is cancelled
    got,             \* messages the range loop has received from stream
    recv,            \* messages the consumer has received
    consumer,        \* the consumer: "ranging", "done" (saw the close), "stopped"
    exitVia,         \* why the read loop left: "none", "done", "err"
    sendPC,          \* a send call: its position
    sendRet,         \* ... and what it returned
    log,             \* the calls of the collaborators made by the call so far
    auth,            \* the Authorizer given to New
    client,          \* what New returned
    authPC,          \* the user of the client: "new", "idle", "authorize"
    hreq,            \* the headers of the request being built
    reqs,            \* the requests authorized: their headers and the error
    issued,          \* what the credential's GetToken has returned, in order
    epM,             \* endpoints.m: the URLs made so far
    mu,              \* endpoints.mu: the caller holding it, 0 when nobody
    ep,              \* the callers of endpoints.url: position and locals
    hist,            \* the calls of endpoints.url that have returned
    norm,            \* a call of Completions, Embeddings or Chat
    pool,            \* requestsBuff, its buffers and their borrowers
    emb              \* an azopenai.Client, its sub-clients and their calls

streamVars == <<csPC, goPC, loopPC, ch, chClosed, responses, responsesClosed,
                hold, loopMsg, wire, wireOpen, wireEnd, fetched, nRead,
                bodyClosed, bioInUse, got, recv, consumer, exitVia>>
respVars == <<status, body, read>>
sendVars == <<sendPC, sendRet>>
authVars == <<auth, client, authPC, hreq, reqs, issued>>
epVars == <<epM, mu, ep, hist>>
callVars == <<streamVars, respVars, sendVars, buffOut, ctxDone, log>>
moreVars == <<norm, pool, emb>>
otherVars == <<authVars, epVars, moreVars>>
vars == <<streamVars, respVars, sendVars, buffOut, ctxDone, log, otherVars>>

\* The parts of the state a specification does not use stay as they are.
AuthIdle ==
    /\ auth = ZeroAuthorizer
    /\ client = NoClient
    /\ authPC = "off"
    /\ hreq = <<>>
    /\ reqs = <<>>
    /\ issued = <<>>
EpIdle ==
    /\ epM = [et \in EndpointTypes |-> NilDeployments]
    /\ mu = 0
    /\ ep = [p \in Procs |-> NotInURL]
    /\ hist = <<>>
MoreIdle ==
    /\ norm = [pc |-> "off"]
    /\ pool = [pc |-> "off"]
    /\ emb = [pc |-> "off"]
OtherIdle == AuthIdle /\ EpIdle /\ MoreIdle

NoMsg == StreamRecv(<<>>, NilErr)
NoRead == [b |-> <<>>, failed |-> FALSE]

Init ==
    /\ csPC = "url"
    /\ goPC = "none"
    /\ loopPC = "none"
    /\ ch = <<>>
    /\ chClosed = FALSE
    /\ responses = <<>>
    /\ responsesClosed = FALSE
    /\ hold = NoMsg
    /\ loopMsg = NoMsg
    /\ status = 0
    /\ wire = <<>>
    /\ wireOpen = FALSE
    /\ wireEnd = "io.EOF"
    /\ body = <<>>
    /\ read = NoRead
    /\ fetched = 0
    /\ nRead = 0
    /\ bodyClosed = FALSE
    /\ bioInUse = FALSE
    /\ buffOut = 0
    /\ ctxDone = FALSE
    /\ got = <<>>
    /\ recv = <<>>
    /\ consumer = "ranging"
    /\ exitVia = "none"
    /\ sendPC = "idle"
    /\ sendRet = [b |-> NilBytes, err |-> NilErr]
    /\ log = <<>>
    /\ OtherIdle

\* ------------------------------------------------------------------------
\* Channels
\* ------------------------------------------------------------------------
\* A send on a channel without a bound.
CanSend_Unbounded(buffered) == TRUE

\* A send on a channel of capacity ChanCap blocks while the buffer is full.
CanSend(buffered) == Len(buffered) < ChanCap

\* ------------------------------------------------------------------------
\* stream: the read loop (the goroutine of stream)
\* ------------------------------------------------------------------------
\* The lines of the body, the unterminated last one taken for complete.
NComplete_Unterminated == Len(wire)

\* The complete (line-feed terminated) lines of the body.
NComplete == IF wireOpen THEN Len(wire) - 1 ELSE Len(wire)

\* What bio.ReadBytes('\n') returns for the i-th complete line: the line
\* through its delimiter.
RawLine(i) == wire[i] \o <<"\n">>

\* The loop body without the check for the sentinel: [DONE] is emitted as
\* a payload and the loop reads on.
LoopBody_NoSentinel(raw) ==
    LET line == TrimSpace(raw) IN
    IF ~HasPrefix(line, streamHeader)
    THEN [act |-> "continue", msg |-> NoMsg]
    ELSE [act |-> "send",
          msg |-> StreamRecv(TrimPrefix(line, streamHeader), NilErr)]

\* The loop body without the skip: the line without the header is emitted
\* as it is.
LoopBody_NoSkip(raw) ==
    LET line == TrimSpace(raw) IN
    IF ~HasPrefix(line, streamHeader)
    THEN [act |-> "send", msg |-> StreamRecv(line, NilErr)]
    ELSE IF TrimPrefix(line, streamHeader) = streamDone
    THEN [act |-> "return", msg |-> NoMsg]
    ELSE [act |-> "send",
          msg |-> StreamRecv(TrimPrefix(line, streamHeader), NilErr)]

\* One pass of the loop body on a line read without error: trim, skip the
\* line without the header, strip the header, stop at the sentinel, emit
\* the rest.
LoopBody(raw) ==
    LET line == TrimSpace(raw) IN
    IF ~HasPrefix(line, streamHeader)
    THEN [act |-> "continue", msg |-> NoMsg]
    ELSE IF TrimPrefix(line, streamHeader) = streamDone
    THEN [act |-> "return", msg |-> NoMsg]
    ELSE [act |-> "send",
          msg |-> StreamRecv(TrimPrefix(line, streamHeader), NilErr)]

\* The loop returning on a read error without sending it.
OnReadErr_Silent(err) == [act |-> "return", msg |-> NoMsg]

\* The loop's reaction to an error of ReadBytes: send it, then return.
OnReadErr(err) == [act |-> "sendErr", msg |-> StreamRecv(<<>>, PlainErr(err))]

\* The loop without the return after the send of a read error.
AfterSendErr_Continue == "read"

\* Where the loop goes after it has sent a read error: it returns.
AfterSendErr == "closing"

\* The error of a Read on the body when the bufio.Reader holds no complete
\* line and the body has nothing more to give: the body was closed, the
\* context was cancelled, or the peer stopped sending (an unterminated last
\* line is returned with this error and dropped by the loop).
BodyErr ==
    IF bodyClosed THEN "http.errReadOnClosedResBody"
    ELSE IF ctxDone THEN "context.Canceled"
    ELSE wireEnd

\* bio := bufIOs.Get(); bio.Reset(resp.Body); defer bufIOs.Put(bio)
LoopStart ==
    /\ loopPC = "start"
    /\ bioInUse' = TRUE
    /\ loopPC' = "read"
    /\ UNCHANGED <<csPC, goPC, ch, chClosed, responses, responsesClosed, hold,
                   loopMsg, wire, wireOpen, wireEnd, fetched, nRead,
                   bodyClosed, got, recv, consumer, exitVia>>
    /\ UNCHANGED <<respVars, sendVars, buffOut, ctxDone>>
    /\ UNCHANGED log
    /\ UNCHANGED otherVars

\* The loop takes the outcome r of one pass.
LoopTake(r) ==
    /\ loopMsg' = r.msg
    /\ loopPC' = CASE r.act = "continue" -> "read"
                   [] r.act = "return"   -> "closing"
                   [] r.act = "send"     -> "send"
                   [] r.act = "sendErr"  -> "sendErr"
    /\ exitVia' = IF r.act = "return" THEN "done" ELSE exitVia

\* line, err := bio.ReadBytes('\n') and the pass on its result.  A line the
\* reader already holds is returned whatever happened to the body; else
\* the reader reads on: it fails with BodyErr when the body is closed,
\* cancelled or exhausted, and otherwise takes one or more further lines.
LoopRead ==
    /\ loopPC = "read"
    /\ \/ /\ nRead < fetched
          /\ nRead' = nRead + 1
          /\ fetched' = fetched
          /\ LoopTake(LoopBody(RawLine(nRead + 1)))
       \/ /\ nRead = fetched
          /\ bodyClosed \/ ctxDone \/ fetched = NComplete
          /\ UNCHANGED <<nRead, fetched>>
          /\ LoopTake(OnReadErr(BodyErr))
       \/ /\ nRead = fetched
          /\ ~bodyClosed /\ ~ctxDone
          /\ \E k \in (fetched + 1)..NComplete :
                /\ fetched' = k
                /\ nRead' = nRead + 1
                /\ LoopTake(LoopBody(RawLine(nRead + 1)))
    /\ UNCHANGED <<csPC, goPC, ch, chClosed, responses, responsesClosed, hold,
                   wire, wireOpen, wireEnd, bodyClosed, bioInUse, got, recv,
                   consumer>>
    /\ UNCHANGED <<respVars, sendVars, buffOut, ctxDone>>
    /\ UNCHANGED log
    /\ UNCHANGED otherVars

\* ch <- StreamRecv[[]byte]{Data: line}
LoopSend ==
    /\ loopPC = "send"
    /\ CanSend(responses)
    /\ responses' = Append(responses, loopMsg)
    /\ loopPC' = "read"
    /\ UNCHANGED <<csPC, goPC, ch, chClosed, responsesClosed, hold, loopMsg,
                   wire, wireOpen, wireEnd, fetched, nRead, bodyClosed,
                   bioInUse, got, recv, consumer, exitVia>>
    /\ UNCHANGED <<respVars, sendVars, buffOut, ctxDone>>
    /\ UNCHANGED log
    /\ UNCHANGED otherVars

\* ch <- StreamRecv[[]byte]{Err: err}; return
LoopSendErr ==
    /\ loopPC = "sendErr"
    /\ CanSend(responses)
    /\ responses' = Append(responses, loopMsg)
    /\ loopPC' = AfterSendErr
    /\ exitVia' = IF AfterSendErr = "closing" THEN "err" ELSE exitVia
    /\ UNCHANGED <<csPC, goPC, ch, chClosed, responsesClosed, hold, loopMsg,
                   wire, wireOpen, wireEnd, fetched, nRead, bodyClosed,
                   bioInUse, got, recv, consumer>>
    /\ UNCHANGED <<respVars, sendVars, buffOut, ctxDone>>
    /\ UNCHANGED log
    /\ UNCHANGED otherVars

\* The deferred calls of the goroutine: bufIOs.Put(bio), then close(ch).
LoopExit ==
    /\ loopPC = "closing"
    /\ bioInUse' = FALSE
    /\ responsesClosed' = TRUE
    /\ loopPC' = "exited"
    /\ UNCHANGED <<csPC, goPC, ch, chClosed, responses, hold, loopMsg, wire,
                   wireOpen, wireEnd, fetched, nRead, bodyClosed, got, recv,
                   consumer, exitVia>>
    /\ UNCHANGED <<respVars, sendVars, buffOut, ctxDone>>
    /\ UNCHANGED log
    /\ UNCHANGED otherVars

\* ------------------------------------------------------------------------
\* CompletionsStream: the part that runs in the caller
\* ------------------------------------------------------------------------
\* u, err := c.endpoints.url(...): on an error (a resource or deployment
\* name url.Parse rejects) the error is put on the channel and the channel
\* is returned as it is.
CSResolveURL ==
    /\ csPC = "url"
    /\ \E ok \in BOOLEAN :
          IF ok
          THEN /\ csPC' = "marshal"
               /\ ch' = ch
          ELSE /\ ch' = Append(ch, StreamRecv(<<>>, PlainErr("url.Error")))
               /\ csPC' = "returned"
    /\ UNCHANGED <<goPC, loopPC, chClosed, responses, responsesClosed, hold,
                   loopMsg, wire, wireOpen, wireEnd, fetched, nRead,
                   bodyClosed, bioInUse, got, recv, consumer, exitVia>>
    /\ UNCHANGED <<respVars, sendVars, buffOut, ctxDone>>
    /\ UNCHANGED log
    /\ UNCHANGED otherVars

\* b, err := json.Marshal(req): on an error (a NaN among the request's
\* numbers) the same.  Otherwise the goroutine is started and the channel
\* returned.
CSMarshal ==
    /\ csPC = "marshal"
    /\ \E ok \in BOOLEAN :
          IF ok
          THEN /\ goPC' = "newreq"
               /\ ch' = ch
          ELSE /\ ch' = Append(ch, StreamRecv(<<>>,
                                   PlainErr("json.UnsupportedValueError")))
               /\ goPC' = goPC
    /\ csPC' = "returned"
    /\ UNCHANGED <<loopPC, chClosed, responses, responsesClosed, hold,
                   loopMsg, wire, wireOpen, wireEnd, fetched, nRead,
                   bodyClosed, bioInUse, got, recv, consumer, exitVia>>
    /\ UNCHANGED <<respVars, sendVars, buffOut, ctxDone>>
    /\ UNCHANGED log
    /\ UNCHANGED otherVars

\* ------------------------------------------------------------------------
\* CompletionsStream: the goroutine, which first runs stream
\* ------------------------------------------------------------------------
\* defer requestsBuff.Put(buff), as send or stream returns: the buffers
\* out after it, of those out before it.
DeferredPut_Leaked(out) == out

DeferredPut(out) == out - 1

\* send and stream wrapping the error of Authorize.
AuthorizeErr_Wrapped(err) == WrapErr("problem authorizing the request", err)

\* if err := c.auth.Authorize(ctx, hreq); err != nil { return nil, err }:
\* the error send and stream return for the error of Authorize.
AuthorizeErr(err) == err

\* send and stream dispatching the request again after an error of Do.
AfterDoErr_Retry == "retry"

\* if err != nil { return nil, err } after c.client.Do(hreq): no retry.
AfterDoErr == "return"

\* stream returned (nil, err): ch <- StreamRecv{Err: err} is next.
GoFail(err) ==
    /\ hold' = StreamRecv(<<>>, err)
    /\ goPC' = "sendErr"

\* hreq, err := http.NewRequestWithContext(ctx, ...): fails on a nil ctx.
StreamNewRequest ==
    /\ goPC = "newreq"
    /\ \E ok \in BOOLEAN :
          IF ok
          THEN /\ goPC' = "authorize"
               /\ hold' = hold
          ELSE GoFail(PlainErr("net/http: nil Context"))
    /\ UNCHANGED <<csPC, loopPC, ch, chClosed, responses, responsesClosed,
                   loopMsg, wire, wireOpen, wireEnd, fetched, nRead,
                   bodyClosed, bioInUse, got, recv, consumer, exitVia>>
    /\ UNCHANGED <<respVars, sendVars, buffOut, ctxDone>>
    /\ UNCHANGED log
    /\ UNCHANGED otherVars

\* c.auth.Authorize(ctx, hreq): returns the credential's error, if any.
StreamAuthorize ==
    /\ goPC = "authorize"
    /\ \E a \in ClientAuths, t \in TokenResults :
          LET r == Authorize(a, t) IN
          /\ log' = Append(log, Ev("Authorize", r.err))
          /\ IF r.err = NilErr
             THEN /\ goPC' = "bufget"
                  /\ hold' = hold
             ELSE GoFail(AuthorizeErr(r.err))
    /\ UNCHANGED <<csPC, loopPC, ch, chClosed, responses, responsesClosed,
                   loopMsg, wire, wireOpen, wireEnd, fetched, nRead,
                   bodyClosed, bioInUse, got, recv, consumer, exitVia>>
    /\ UNCHANGED <<respVars, sendVars, buffOut, ctxDone>>
    /\ UNCHANGED otherVars

\* buff := requestsBuff.Get(); defer requestsBuff.Put(buff); buff.Reset(msg)
StreamBufGet ==
    /\ goPC = "bufget"
    /\ buffOut' = buffOut + 1
    /\ log' = Append(log, Ev("Get", NilErr))
    /\ goPC' = "do"
    /\ UNCHANGED <<csPC, loopPC, ch, chClosed, responses, responsesClosed,
                   hold, loopMsg, wire, wireOpen, wireEnd, fetched, nRead,
                   bodyClosed, bioInUse, got, recv, consumer, exitVia>>
    /\ UNCHANGED <<respVars, sendVars, ctxDone>>
    /\ UNCHANGED otherVars

\* resp, err := c.client.Do(hreq).  On an error (always, once the context
\* is cancelled) stream returns it, and the deferred Put returns the
\* buffer.  Otherwise the response is a status with a body: a streamed
\* body for 200, an error body else.
StreamDo ==
    /\ goPC = "do"
    /\ \/ /\ LET err == PlainErr(IF ctxDone THEN "context.Canceled"
                                             ELSE "transport") IN
             IF AfterDoErr = "return"
             THEN /\ GoFail(err)
                  /\ buffOut' = DeferredPut(buffOut)
                  /\ log' = log \o <<Ev("Do", err), Ev("Put", NilErr)>>
             ELSE /\ log' = Append(log, Ev("Do", err))
                  /\ UNCHANGED <<goPC, hold, buffOut>>
          /\ UNCHANGED <<status, body, wire, wireOpen, wireEnd>>
       \/ /\ ~ctxDone
          /\ log' = Append(log, Ev("Do", NilErr))
          /\ status' = StatusOK
          /\ \E w \in Wires, open \in BOOLEAN, e \in WireEnds :
                /\ open => Len(w) > 0
                /\ wire' = w
                /\ wireOpen' = open
                /\ wireEnd' = e
          /\ goPC' = "status"
          /\ UNCHANGED <<hold, body, buffOut>>
       \/ /\ ~ctxDone
          /\ log' = Append(log, Ev("Do", NilErr))
          /\ \E st \in Statuses \ {StatusOK}, b \in Bodies :
                /\ status' = st
                /\ body' = b
          /\ goPC' = "status"
          /\ UNCHANGED <<hold, wire, wireOpen, wireEnd, buffOut>>
    /\ UNCHANGED <<csPC, loopPC, ch, chClosed, responses, responsesClosed,
                   loopMsg, fetched, nRead, bodyClosed, bioInUse, got, recv,
                   consumer, exitVia, read>>
    /\ UNCHANGED <<sendVars, ctxDone>>
    /\ UNCHANGED otherVars

\* io.ReadAll(resp.Body) of specErr: the whole body, or on a failed read
\* the bytes read before the failure.
ReadAll(r) ==
    \/ r = [b |-> body, failed |-> FALSE]
    \/ \E n \in 0..Len(body) : r = [b |-> SubSeq(body, 1, n), failed |-> TRUE]
Reads == [b : Bodies, failed : BOOLEAN]

\* stream without the status check: the loop is started on any response.
StartsLoop_Always(st) == TRUE

\* The read loop is started exactly for the status 200.
StartsLoop(st) == st = StatusOK

\* if resp.StatusCode != http.StatusOK { return nil, specErr(resp) }, with
\* the deferred Body.Close and Put; else the read loop is started.
StreamStatus ==
    /\ goPC = "status"
    /\ IF ~StartsLoop(status)
       THEN /\ \E r \in Reads :
                  /\ ReadAll(r)
                  /\ read' = r
                  /\ GoFail(specErr(status, r))
            /\ bodyClosed' = TRUE
            /\ buffOut' = DeferredPut(buffOut)
            /\ log' = Append(log, Ev("Put", NilErr))
            /\ UNCHANGED loopPC
       ELSE /\ loopPC' = "start"
            /\ goPC' = "return"
            /\ UNCHANGED <<hold, read, bodyClosed, buffOut, log>>
    /\ UNCHANGED <<csPC, ch, chClosed, responses, responsesClosed, loopMsg,
                   wire, wireOpen, wireEnd, fetched, nRead, bioInUse, got,
                   recv, consumer, exitVia, status, body>>
    /\ UNCHANGED <<sendVars, ctxDone>>
    /\ UNCHANGED otherVars

\* return ch, nil: the deferred calls of stream run now, resp.Body.Close()
\* and requestsBuff.Put(buff), while the read loop runs.
StreamReturn ==
    /\ goPC = "return"
    /\ bodyClosed' = TRUE
    /\ buffOut' = DeferredPut(buffOut)
    /\ log' = Append(log, Ev("Put", NilErr))
    /\ goPC' = "range"
    /\ UNCHANGED <<csPC, loopPC, ch, chClosed, responses, responsesClosed,
                   hold, loopMsg, wire, wireOpen, wireEnd, fetched, nRead,
                   bioInUse, got, recv, consumer, exitVia>>
    /\ UNCHANGED <<respVars, sendVars, ctxDone>>
    /\ UNCHANGED otherVars

\* The body of the range loop for one response: decode response.Data,
\* whatever response.Err is, and send the error or the decoded message.
RangeBody(response) ==
    IF UnmarshalResp(response.Data).err # NilErr
    THEN [act |-> "sendErr",
          msg |-> StreamRecv(<<>>,
                     WrapErr("problem unmarshaling the response body",
                             UnmarshalResp(response.Data).err))]
    ELSE [act |-> "send",
          msg |-> StreamRecv(UnmarshalResp(response.Data).msg, NilErr)]

\* for response := range responses: the next response and the loop body
\* on it, or the end of the loop when the channel is closed and drained.
GoRange ==
    /\ goPC = "range"
    /\ \/ /\ responses # <<>>
          /\ responses' = Tail(responses)
          /\ got' = Append(got, Head(responses))
          /\ hold' = RangeBody(Head(responses)).msg
          /\ goPC' = RangeBody(Head(responses)).act
       \/ /\ responses = <<>>
          /\ responsesClosed
          /\ goPC' = "closing"
          /\ UNCHANGED <<responses, got, hold>>
    /\ UNCHANGED <<csPC, loopPC, ch, chClosed, responsesClosed, loopMsg,
                   wire, wireOpen, wireEnd, fetched, nRead, bodyClosed,
                   bioInUse, recv, consumer, exitVia>>
    /\ UNCHANGED <<respVars, sendVars, buffOut, ctxDone>>
    /\ UNCHANGED log
    /\ UNCHANGED otherVars

\* ch <- StreamRecv[completions.Resp]{Data: msg}
GoSend ==
    /\ goPC = "send"
    /\ CanSend(ch)
    /\ ch' = Append(ch, hold)
    /\ goPC' = "range"
    /\ UNCHANGED <<csPC, loopPC, chClosed, responses, responsesClosed, hold,
                   loopMsg, wire, wireOpen, wireEnd, fetched, nRead,
                   bodyClosed, bioInUse, got, recv, consumer, exitVia>>
    /\ UNCHANGED <<respVars, sendVars, buffOut, ctxDone>>
    /\ UNCHANGED log
    /\ UNCHANGED otherVars

\* ch <- StreamRecv[completions.Resp]{Err: err}; return
GoSendErr ==
    /\ goPC = "sendErr"
    /\ CanSend(ch)
    /\ ch' = Append(ch, hold)
    /\ goPC' = "closing"
    /\ UNCHANGED <<csPC, loopPC, chClosed, responses, responsesClosed, hold,
                   loopMsg, wire, wireOpen, wireEnd, fetched, nRead,
                   bodyClosed, bioInUse, got, recv, consumer, exitVia>>
    /\ UNCHANGED <<respVars, sendVars, buffOut, ctxDone>>
    /\ UNCHANGED log
    /\ UNCHANGED otherVars

\* defer close(ch)
GoExit ==
    /\ goPC = "closing"
    /\ chClosed' = TRUE
    /\ goPC' = "exited"
    /\ UNCHANGED <<csPC, loopPC, ch, responses, responsesClosed, hold,
                   loopMsg, wire, wireOpen, wireEnd, fetched, nRead,
                   bodyClosed, bioInUse, got, recv, consumer, exitVia>>
    /\ UNCHANGED <<respVars, sendVars, buffOut, ctxDone>>
    /\ UNCHANGED log
    /\ UNCHANGED otherVars

\* ------------------------------------------------------------------------
\* The caller: the consumer of the channel, and the context
\* ------------------------------------------------------------------------
\* for msg := range ch: the next message, or the end of the loop when the
\* channel is closed and drained.
ConsumerRecv ==
    /\ csPC = "returned"
    /\ consumer = "ranging"
    /\ \/ /\ ch # <<>>
          /\ recv' = Append(recv, Head(ch))
          /\ ch' = Tail(ch)
          /\ UNCHANGED consumer
       \/ /\ ch = <<>>
          /\ chClosed
          /\ consumer' = "done"
          /\ UNCHANGED <<ch, recv>>
    /\ UNCHANGED <<csPC, goPC, loopPC, chClosed, responses, responsesClosed,
                   hold, loopMsg, wire, wireOpen, wireEnd, fetched, nRead,
                   bodyClosed, bioInUse, got, exitVia>>
    /\ UNCHANGED <<respVars, sendVars, buffOut, ctxDone>>
    /\ UNCHANGED log
    /\ UNCHANGED otherVars

\* The caller cancels the context of the call.
Cancel ==
    /\ csPC = "returned"
    /\ ~ctxDone
    /\ ctxDone' = TRUE
    /\ UNCHANGED <<streamVars, respVars, sendVars, buffOut>>
    /\ UNCHANGED log
    /\ UNCHANGED otherVars

\* The consumer stops receiving once it has cancelled the context.
ConsumerStop ==
    /\ ctxDone
    /\ consumer = "ranging"
    /\ consumer' = "stopped"
    /\ UNCHANGED <<csPC, goPC, loopPC, ch, chClosed, responses,
                   responsesClosed, hold, loopMsg, wire, wireOpen, wireEnd,
                   fetched, nRead, bodyClosed, bioInUse, got, recv, exitVia>>
    /\ UNCHANGED <<respVars, sendVars, buffOut, ctxDone>>
    /\ UNCHANGED log
    /\ UNCHANGED otherVars

Next ==
    \/ CSResolveURL
    \/ CSMarshal
    \/ StreamNewRequest
    \/ StreamAuthorize
    \/ StreamBufGet
    \/ StreamDo
    \/ StreamStatus
    \/ StreamReturn
    \/ LoopStart
    \/ LoopRead
    \/ LoopSend
    \/ LoopSendErr
    \/ LoopExit
    \/ GoRange
    \/ GoSend
    \/ GoSendErr
    \/ GoExit
    \/ ConsumerRecv
    \/ Cancel
    \/ ConsumerStop

Spec == Init /\ [][Next]_vars

\* ------------------------------------------------------------------------
\* send: the synchronous call
\* ------------------------------------------------------------------------
SendInit ==
    /\ csPC = "idle"
    /\ goPC = "none"
    /\ loopPC = "none"
    /\ ch = <<>>
    /\ chClosed = FALSE
    /\ responses = <<>>
    /\ responsesClosed = FALSE
    /\ hold = NoMsg
    /\ loopMsg = NoMsg
    /\ status = 0
    /\ wire = <<>>
    /\ wireOpen = FALSE
    /\ wireEnd = "io.EOF"
    /\ body = <<>>
    /\ read = NoRead
    /\ fetched = 0
    /\ nRead = 0
    /\ bodyClosed = FALSE
    /\ bioInUse = FALSE
    /\ buffOut = 0
    /\ ctxDone = FALSE
    /\ got = <<>>
    /\ recv = <<>>
    /\ consumer = "ranging"
    /\ exitVia = "none"
    /\ sendPC = "newreq"
    /\ sendRet = [b |-> NilBytes, err |-> NilErr]
    /\ log = <<>>
    /\ OtherIdle

\* return nil, err
SendFail(err) ==
    /\ sendRet' = [b |-> NilBytes, err |-> err]
    /\ sendPC' = "returned"

\* hreq, err := http.NewRequestWithContext(ctx, ...): fails on a nil ctx.
SendNewRequest ==
    /\ sendPC = "newreq"
    /\ \E ok \in BOOLEAN :
          IF ok
          THEN /\ sendPC' = "authorize"
               /\ sendRet' = sendRet
          ELSE SendFail(PlainErr("net/http: nil Context"))
    /\ UNCHANGED <<streamVars, respVars, buffOut, ctxDone>>
    /\ UNCHANGED log
    /\ UNCHANGED otherVars

\* c.auth.Authorize(ctx, hreq): returns the credential's error, if any.
SendAuthorize ==
    /\ sendPC = "authorize"
    /\ \E a \in ClientAuths, t \in TokenResults :
          LET r == Authorize(a, t) IN
          /\ log' = Append(log, Ev("Authorize", r.err))
          /\ IF r.err = NilErr
             THEN /\ sendPC' = "bufget"
                  /\ sendRet' = sendRet
             ELSE SendFail(AuthorizeErr(r.err))
    /\ UNCHANGED <<streamVars, respVars, buffOut, ctxDone>>
    /\ UNCHANGED otherVars

\* buff := requestsBuff.Get(); defer requestsBuff.Put(buff); buff.Reset(msg)
SendBufGet ==
    /\ sendPC = "bufget"
    /\ buffOut' = buffOut + 1
    /\ log' = Append(log, Ev("Get", NilErr))
    /\ sendPC' = "do"
    /\ UNCHANGED <<streamVars, respVars, sendRet, ctxDone>>
    /\ UNCHANGED otherVars

\* resp, err := c.client.Do(hreq): a transport error, returned as it is
\* (the deferred Put returns the buffer), or a response.
SendDo ==
    /\ sendPC = "do"
    /\ \/ /\ IF AfterDoErr = "return"
             THEN /\ SendFail(PlainErr("transport"))
                  /\ buffOut' = DeferredPut(buffOut)
                  /\ log' = log \o <<Ev("Do", PlainErr("transport")),
                                     Ev("Put", NilErr)>>
             ELSE /\ log' = Append(log, Ev("Do", PlainErr("transport")))
                  /\ UNCHANGED <<sendPC, sendRet, buffOut>>
          /\ UNCHANGED <<status, body>>
       \/ /\ log' = Append(log, Ev("Do", NilErr))
          /\ \E st \in Statuses, b \in Bodies :
                /\ status' = st
                /\ body' = b
          /\ sendPC' = "status"
          /\ UNCHANGED <<sendRet, buffOut>>
    /\ UNCHANGED <<streamVars, read, ctxDone>>
    /\ UNCHANGED otherVars

\* send returning the bytes read along with the error of a failed read.
SendRead_KeepBytes(r) ==
    IF r.failed
    THEN [b |-> Bytes(r.b),
          err |-> WrapErr("problem reading the response body",
                          PlainErr("read"))]
    ELSE [b |-> Bytes(r.b), err |-> NilErr]

\* What send returns for a non-200 response, whose body specErr has read.
SendNot200(code, r) == [b |-> NilBytes, err |-> specErr(code, r)]

\* What send returns for a 200 response, whose body it has read.
SendRead(r) ==
    IF r.failed
    THEN [b |-> NilBytes,
          err |-> WrapErr("problem reading the response body",
                          PlainErr("read"))]
    ELSE [b |-> Bytes(r.b), err |-> NilErr]

\* The status check, the read of the body and the return, with the
\* deferred resp.Body.Close() and requestsBuff.Put(buff).
SendStatus ==
    /\ sendPC = "status"
    /\ \E r \in Reads :
          /\ ReadAll(r)
          /\ read' = r
          /\ sendRet' = IF status # StatusOK THEN SendNot200(status, r)
                                            ELSE SendRead(r)
    /\ bodyClosed' = TRUE
    /\ buffOut' = DeferredPut(buffOut)
    /\ log' = Append(log, Ev("Put", NilErr))
    /\ sendPC' = "returned"
    /\ UNCHANGED <<csPC, goPC, loopPC, ch, chClosed, responses,
                   responsesClosed, hold, loopMsg, wire, wireOpen, wireEnd,
                   fetched, nRead, bioInUse, got, recv, consumer, exitVia>>
    /\ UNCHANGED <<status, body, ctxDone>>
    /\ UNCHANGED otherVars

SendNext ==
    \/ SendNewRequest
    \/ SendAuthorize
    \/ SendBufGet
    \/ SendDo
    \/ SendStatus

SendSpec == SendInit /\ [][SendNext]_vars

\* ------------------------------------------------------------------------
\* What the properties speak of
\* ------------------------------------------------------------------------
\* The wire format, stated on the lines themselves: the payload a line
\* carries (<<>>: none), and the lines that are the sentinel.
WirePayload(t) ==
    CASE t = LineJ1 -> <<"J1">>
      [] t = LineJ2 -> <<"J2">>
      [] t = LineX  -> <<"X">>
      [] OTHER      -> <<>>
IsDoneLine(t) == t = LineDone

\* The first complete sentinel line of the body (0: none).
FirstDone ==
    IF \E i \in 1..NComplete : IsDoneLine(wire[i])
    THEN CHOOSE i \in 1..NComplete :
            /\ IsDoneLine(wire[i])
            /\ \A j \in 1..(i - 1) : ~IsDoneLine(wire[j])
    ELSE 0

\* The payloads of the lines i..n of the body, in wire order.
RECURSIVE PayloadsOf(_, _)
PayloadsOf(i, n) ==
    IF i > n THEN <<>>
    ELSE IF WirePayload(wire[i]) = <<>> THEN PayloadsOf(i + 1, n)
    ELSE <<WirePayload(wire[i])>> \o PayloadsOf(i + 1, n)

\* The payloads that precede the first sentinel (all, without one).
ExpectedPayloads ==
    PayloadsOf(1, IF FirstDone = 0 THEN NComplete ELSE FirstDone - 1)

\* The Data of the payload messages among msgs, in order.
RECURSIVE DataOf(_)
DataOf(msgs) ==
    IF msgs = <<>> THEN <<>>
    ELSE IF Head(msgs).Err # NilErr THEN DataOf(Tail(msgs))
    ELSE <<Head(msgs).Data>> \o DataOf(Tail(msgs))

\* Everything sent so far on stream's channel and on CompletionsStream's.
InnerSent == got \o responses
OuterSent == recv \o ch

IsErrMsg(m) == m.Err # NilErr
ErrOnlyLast(msgs) == \A i \in 1..Len(msgs) : IsErrMsg(msgs[i]) => i = Len(msgs)

\* ------------------------------------------------------------------------
\* C1
\* ------------------------------------------------------------------------
\* C1: for a 200 response whose context is not cancelled, once the read
\* loop has exited and its channel is drained, the payloads the consumer of
\* stream received are exactly the payloads of the data lines before the
\* first [DONE] line, in wire order.
C1_ExactPayloads ==
    (loopPC = "exited" /\ responses = <<>> /\ ~ctxDone)
        => DataOf(got) = ExpectedPayloads

\* ------------------------------------------------------------------------
\* C2
\* ------------------------------------------------------------------------
\* C2: when CompletionsStream has returned and no goroutine of the call is
\* left to run, the channel is closed and what was sent on it is payloads
\* followed by at most one error.
CallOver == csPC = "returned" /\ goPC \in {"none", "exited"}
C2_AlwaysClosed == CallOver => (chClosed /\ ErrOnlyLast(OuterSent))

\* ------------------------------------------------------------------------
\* C3
\* ------------------------------------------------------------------------
NoDoneLine == \A i \in 1..Len(wire) : ~IsDoneLine(wire[i])

\* C3: for a 200 body without a [DONE] line, the last message on stream's
\* channel when it closes, and the last message the consumer of
\* CompletionsStream has received when it sees the close, is an error.
C3_EndWithoutDoneIsError ==
    /\ (responsesClosed /\ NoDoneLine)
          => (InnerSent # <<>> /\ IsErrMsg(InnerSent[Len(InnerSent)]))
    /\ (consumer = "done" /\ status = StatusOK /\ NoDoneLine)
          => (recv # <<>> /\ IsErrMsg(recv[Len(recv)]))

\* The body was read to its end, without a sentinel, and the consumer has
\* seen the close after the error.
C3_Witness ==
    /\ consumer = "done"
    /\ status = StatusOK
    /\ NoDoneLine
    /\ Len(wire) > 0
    /\ nRead = NComplete
    /\ got # <<>>
    /\ got[Len(got)].Err.kind = wireEnd
    /\ IsErrMsg(recv[Len(recv)])

\* ------------------------------------------------------------------------
\* C4
\* ------------------------------------------------------------------------
\* C4: once the loop has read the first [DONE] line it has returned: it
\* reads no further line, no error was or is sent, the payloads sent are
\* those before the sentinel, and the channel is closed when it exits.
C4_DoneEndsCleanly ==
    (FirstDone # 0 /\ nRead >= FirstDone)
        => /\ nRead = FirstDone
           /\ loopPC \in {"closing", "exited"}
           /\ \A i \in 1..Len(InnerSent) : ~IsErrMsg(InnerSent[i])
           /\ DataOf(InnerSent) = ExpectedPayloads
           /\ (loopPC = "exited" => responsesClosed)

\* The loop has exited at a sentinel that further lines follow.
C4_Witness ==
    /\ FirstDone # 0
    /\ FirstDone < Len(wire)
    /\ nRead = FirstDone
    /\ loopPC = "exited"
    /\ responsesClosed
    /\ DataOf(InnerSent) # <<>>

\* ------------------------------------------------------------------------
\* C5
\* ------------------------------------------------------------------------
\* C5: on both channels an error is the last message sent: nothing is sent
\* after it.
C5_NothingAfterErr == ErrOnlyLast(InnerSent) /\ ErrOnlyLast(OuterSent)

\* Both channels have carried payloads and then an error, and are closed.
C5_Witness ==
    /\ consumer = "done"
    /\ responsesClosed
    /\ Len(got) >= 2
    /\ IsErrMsg(got[Len(got)])
    /\ Len(recv) >= 2
    /\ IsErrMsg(recv[Len(recv)])

\* ------------------------------------------------------------------------
\* C6
\* ------------------------------------------------------------------------
\* Nobody will receive from stream's channel any more: the range loop has
\* ended, or it is blocked on a full channel the consumer has left.
ReceiverGone ==
    \/ goPC \in {"closing", "exited"}
    \/ /\ goPC \in {"send", "sendErr"}
       /\ ~CanSend(ch)
       /\ consumer = "stopped"

\* C6: after the cancellation the read loop is never left blocked on a send
\* nobody will receive.
C6_NoStuckProducer ==
    ~(/\ ctxDone
      /\ loopPC \in {"send", "sendErr"}
      /\ ~CanSend(responses)
      /\ ReceiverGone)

\* ------------------------------------------------------------------------
\* C7
\* ------------------------------------------------------------------------
\* C7: the response body is not closed while the read loop is reading.
C7_BodyOpenWhileReading ==
    bodyClosed => loopPC \in {"none", "closing", "exited"}

\* ------------------------------------------------------------------------
\* C8
\* ------------------------------------------------------------------------
\* The structured error of the response at hand, stated on its fields.
IsStatusErr(e) ==
    /\ e.kind \in {"JSON", "StatusCode"}
    /\ e.StatusCode = status
    /\ e.Message = read.b

\* C8: with a non-200 status no read loop is started and nothing is put on
\* stream's channel; all that is ever sent to the consumer is one message,
\* the error send returns for that response; the consumer that sees the
\* close has received exactly that message.
C8_Not200IsOneError ==
    (csPC = "returned" /\ status # 0 /\ status # StatusOK)
        => /\ loopPC = "none"
           /\ InnerSent = <<>>
           /\ Len(OuterSent) <= 1
           /\ \A i \in 1..Len(OuterSent) :
                 /\ OuterSent[i].Data = <<>>
                 /\ IsStatusErr(OuterSent[i].Err)
                 /\ OuterSent[i].Err = SendNot200(status, read).err
           /\ consumer = "done" => (Len(recv) = 1 /\ chClosed)

\* The consumer has received the error of a non-200 response with a JSON
\* body and seen the close.
C8_Witness ==
    /\ consumer = "done"
    /\ status = 404
    /\ chClosed
    /\ Len(recv) = 1
    /\ recv[1].Err.kind = "JSON"
    /\ recv[1].Err.JSON # {}

\* ------------------------------------------------------------------------
\* C9
\* ------------------------------------------------------------------------
SendGotNot200 == sendPC = "returned" /\ status # 0 /\ status # StatusOK

\* C9: for every non-200 response send returns no bytes and an error with
\* the status code and the body text; the JSON variant with the decoded
\* mapping if the body decodes as a JSON object, else the status-code
\* variant.
C9_StructuredError ==
    SendGotNot200
        => /\ sendRet.b = NilBytes
           /\ sendRet.err.StatusCode = status
           /\ sendRet.err.Message = body
           /\ IF UnmarshalMap(body).ok
              THEN /\ sendRet.err.kind = "JSON"
                   /\ sendRet.err.JSON = UnmarshalMap(body).m
              ELSE /\ sendRet.err.kind = "StatusCode"
                   /\ sendRet.err.JSON = {}

\* C9 (amended): the error carries the status code and the text as read;
\* it is the JSON variant with the decoded mapping if the body was read
\* without error and decodes, else (no JSON object, or a failed read) the
\* status-code variant with the text read.
C9_StructuredErrorAsRead ==
    SendGotNot200
        => /\ sendRet.b = NilBytes
           /\ sendRet.err.StatusCode = status
           /\ sendRet.err.Message = read.b
           /\ ~read.failed => read.b = body
           /\ IF ~read.failed /\ UnmarshalMap(body).ok
              THEN /\ sendRet.err.kind = "JSON"
                   /\ sendRet.err.JSON = UnmarshalMap(body).m
              ELSE /\ sendRet.err.kind = "StatusCode"
                   /\ sendRet.err.JSON = {}

\* send has returned the JSON variant for a body with members.
C9_Witness ==
    /\ SendGotNot200
    /\ ~read.failed
    /\ sendRet.err.kind = "JSON"
    /\ sendRet.err.JSON # {}
    /\ sendRet.err.StatusCode = 500

\* ------------------------------------------------------------------------
\* C10
\* ------------------------------------------------------------------------
\* C10: for a 200 response whose body is read without error send returns
\* the whole body and no error; send never returns bytes with an error.
C10_BodyOrError ==
    /\ (sendPC = "returned" /\ status = StatusOK /\ ~read.failed)
          => sendRet = [b |-> Bytes(body), err |-> NilErr]
    /\ sendPC = "returned"
          => (sendRet.b.isNil \/ sendRet.err = NilErr)

\* send has returned a 200 body of several symbols.
C10_Witness ==
    /\ sendPC = "returned"
    /\ status = StatusOK
    /\ ~read.failed
    /\ Len(body) >= 2
    /\ sendRet.b = Bytes(body)
    /\ sendRet.err = NilErr

\* ------------------------------------------------------------------------
\* send and stream together
\* ------------------------------------------------------------------------
\* A call of CompletionsStream (hence stream) or a call of send.
TransportSpec == (Init \/ SendInit) /\ [][Next \/ SendNext]_vars

\* The calls of op in the record of calls, and the errors they returned.
Calls(op) == {i \in 1..Len(log) : log[i].op = op}
FailedCalls(op) == {i \in Calls(op) : log[i].err # NilErr}

\* stream has returned (nil, err) to the goroutine of CompletionsStream,
\* which holds the message with that error from then on.
StreamReturned(err) ==
    /\ goPC \in {"sendErr", "closing", "exited"}
    /\ hold = StreamRecv(<<>>, err)
    /\ loopPC = "none"

\* send has returned (nil, err).
SendReturned(err) ==
    /\ sendPC = "returned"
    /\ sendRet = [b |-> NilBytes, err |-> err]

\* ------------------------------------------------------------------------
\* C11
\* ------------------------------------------------------------------------
\* C11: a call of send or stream calls Do at most once; after an error of
\* Do it has returned that very error, and after a non-200 status it
\* returns an error; it does not dispatch again.
C11_OneDispatch ==
    /\ Cardinality(Calls("Do")) <= 1
    /\ \A i \in FailedCalls("Do") :
          IF csPC = "idle" THEN SendReturned(log[i].err)
                           ELSE StreamReturned(log[i].err)
    /\ (sendPC = "returned" /\ status # 0 /\ status # StatusOK)
          => (sendRet.b = NilBytes /\ sendRet.err # NilErr)
    /\ (csPC # "idle" /\ goPC # "status" /\ status # 0 /\ status # StatusOK)
          => (IsErrMsg(hold) /\ loopPC = "none")

\* send has returned the error of its one dispatch.
C11_Witness ==
    /\ csPC = "idle"
    /\ sendPC = "returned"
    /\ Cardinality(Calls("Do")) = 1
    /\ FailedCalls("Do") # {}
    /\ sendRet.err = PlainErr("transport")

\* ------------------------------------------------------------------------
\* C12
\* ------------------------------------------------------------------------
\* C12: after a failed Authorize the call has returned exactly the error
\* of Authorize, without a call of Do and without a buffer taken from the
\* pool.
C12_AuthFailureReturned ==
    \A i \in FailedCalls("Authorize") :
        /\ Calls("Do") = {}
        /\ Calls("Get") = {}
        /\ buffOut = 0
        /\ IF csPC = "idle" THEN SendReturned(log[i].err)
                            ELSE StreamReturned(log[i].err)

\* stream has failed on the credential's error and the consumer of
\* CompletionsStream has received it.
C12_Witness ==
    /\ FailedCalls("Authorize") # {}
    /\ goPC = "exited"
    /\ recv = <<StreamRecv(<<>>, PlainErr("GetToken"))>>
    /\ log = <<Ev("Authorize", PlainErr("GetToken"))>>

\* ------------------------------------------------------------------------
\* endpoints.url: the callers of one client
\* ------------------------------------------------------------------------
\* No call of send or of CompletionsStream is under way.
CallIdle ==
    /\ csPC = "idle"
    /\ goPC = "none"
    /\ loopPC = "none"
    /\ ch = <<>>
    /\ chClosed = FALSE
    /\ responses = <<>>
    /\ responsesClosed = FALSE
    /\ hold = NoMsg
    /\ loopMsg = NoMsg
    /\ status = 0
    /\ wire = <<>>
    /\ wireOpen = FALSE
    /\ wireEnd = "io.EOF"
    /\ body = <<>>
    /\ read = NoRead
    /\ fetched = 0
    /\ nRead = 0
    /\ bodyClosed = FALSE
    /\ bioInUse = FALSE
    /\ buffOut = 0
    /\ ctxDone = FALSE
    /\ got = <<>>
    /\ recv = <<>>
    /\ consumer = "ranging"
    /\ exitVia = "none"
    /\ sendPC = "idle"
    /\ sendRet = [b |-> NilBytes, err |-> NilErr]
    /\ log = <<>>

\* newEndpoints(): the templates and an empty map.
EpInit == CallIdle /\ AuthIdle /\ EpIdle /\ MoreIdle

\* The URL e.m holds for a type and a deployment, nil when it holds none.
Cached(et, id) == IF epM[et].isNil THEN NilURL ELSE epM[et].d[id]

\* Another call of url for the type and the deployment is under way.
Racing(et, id) ==
    \E q \in Procs :
       ep[q].pc # "idle" /\ ep[q].eType = et /\ ep[q].deploymentID = id

\* Calls of url begun so far.
Started == Len(hist) + Cardinality({p \in Procs : ep[p].pc # "idle"})

\* Embeddings, Chat, Completions or CompletionsStream calls
\* c.endpoints.url(<type>, deploymentID, c.vars).
EpCall(p) ==
    /\ ep[p].pc = "idle"
    /\ Started < MaxResolves
    /\ \E et \in EndpointTypes, id \in DeploymentIDs :
          ep' = [ep EXCEPT ![p] =
                    [pc |-> "lock", eType |-> et, deploymentID |-> id,
                     vars |-> ClientVars, u |-> NilURL, err |-> NilErr,
                     did |-> FALSE,
                     raced |-> Cached(et, id).isNil /\ Racing(et, id)]]
    /\ UNCHANGED <<epM, mu, hist>>
    /\ UNCHANGED <<callVars, authVars, moreVars>>

\* e.mu.Lock(); deploy := e.m[eType] ...; u := deploy[deploymentID]: with
\* the mutex in hand the map is read, and a URL found is returned.
EpLookup(p) ==
    /\ ep[p].pc = "lock"
    /\ CanLock(mu)
    /\ mu' = p
    /\ LET deploy == Deploy(epM, ep[p].eType)
           u == deploy.d[ep[p].deploymentID]
       IN  /\ epM' = [epM EXCEPT ![ep[p].eType] = deploy]
           /\ IF u.isNil
              THEN ep' = [ep EXCEPT ![p].pc = "set"]
              ELSE ep' = [ep EXCEPT ![p].pc = "unlock", ![p].u = u]
    /\ UNCHANGED hist
    /\ UNCHANGED <<callVars, authVars, moreVars>>

\* url making set run again after its error.
AfterSetErr_Retry == "set"

\* Where url goes after an error of set: it returns.
AfterSetErr == "unlock"

\* if u == nil: the URL is made by set; its error is returned, its URL is
\* put into the map and returned.
EpSet(p) ==
    /\ ep[p].pc = "set"
    /\ LET v == WithDeployment(ep[p].vars, ep[p].deploymentID)
           r == set(ep[p].eType, v)
       IN  IF r.err # NilErr
           THEN /\ ep' = [ep EXCEPT ![p].pc = AfterSetErr, ![p].vars = v,
                                    ![p].did = TRUE, ![p].err = r.err]
                /\ epM' = epM
           ELSE /\ ep' = [ep EXCEPT ![p].pc = "unlock", ![p].vars = v,
                                    ![p].did = TRUE, ![p].u = r.u]
                /\ epM' = [epM EXCEPT ![ep[p].eType] =
                              Store(epM[ep[p].eType], ep[p].deploymentID,
                                    r.u)]
    /\ UNCHANGED <<mu, hist>>
    /\ UNCHANGED <<callVars, authVars, moreVars>>

\* What a call that has returned leaves in hist.
Resolved(c) ==
    [eType |-> c.eType, deploymentID |-> c.deploymentID, u |-> c.u,
     err |-> c.err, did |-> c.did, raced |-> c.raced]

\* defer e.mu.Unlock(), as url returns
EpUnlock(p) ==
    /\ ep[p].pc = "unlock"
    /\ mu' = 0
    /\ hist' = Append(hist, Resolved(ep[p]))
    /\ ep' = [ep EXCEPT ![p] = NotInURL]
    /\ UNCHANGED epM
    /\ UNCHANGED <<callVars, authVars, moreVars>>

EpNext ==
    \E p \in Procs :
       \/ EpCall(p)
       \/ EpLookup(p)
       \/ EpSet(p)
       \/ EpUnlock(p)

EndpointSpec == EpInit /\ [][EpNext]_vars

\* Two calls in hist are for the same type and deployment.
SameKey(i, j) ==
    /\ hist[i].eType = hist[j].eType
    /\ hist[i].deploymentID = hist[j].deploymentID

\* ------------------------------------------------------------------------
\* C13
\* ------------------------------------------------------------------------
\* C13 as it is stated: of two calls of url for the same type and
\* deployment on one endpoints value, the later returns the URL the
\* earlier returned and runs neither the template nor url.Parse.
C13_SecondIsHit ==
    \A i, j \in 1..Len(hist) :
       (i < j /\ SameKey(i, j)) =>
          (hist[j].u = hist[i].u /\ ~hist[j].did)

\* C13: of two calls of url for the same type and deployment on one
\* endpoints value, the earlier of which returned a URL, the later returns
\* that URL, with no error, and runs neither the template nor url.Parse.
C13_SecondIsHitAfterSuccess ==
    \A i, j \in 1..Len(hist) :
       (i < j /\ SameKey(i, j) /\ hist[i].err = NilErr) =>
          /\ hist[j].u = hist[i].u
          /\ ~hist[j].u.isNil
          /\ hist[j].err = NilErr
          /\ ~hist[j].did

\* A deployment resolved twice, one call after the other has returned:
\* the first made the URL, the second found it.
C13_Witness ==
    /\ Len(hist) = 2
    /\ SameKey(1, 2)
    /\ ~hist[1].raced /\ ~hist[2].raced
    /\ hist[1].did /\ ~hist[1].u.isNil
    /\ ~hist[2].did /\ hist[2].u = hist[1].u

\* ------------------------------------------------------------------------
\* C14
\* ------------------------------------------------------------------------
\* The callers between Lock and Unlock.
Holding == {p \in Procs : ep[p].pc \in {"set", "unlock"}}

\* The calls for a type and a deployment that have run set, returned or
\* not, and those that have returned.
SetRuns(et, id) ==
    Cardinality({i \in 1..Len(hist) :
                    /\ hist[i].eType = et
                    /\ hist[i].deploymentID = id
                    /\ hist[i].did})
       + Cardinality({p \in Procs :
                         /\ ep[p].pc # "idle"
                         /\ ep[p].eType = et
                         /\ ep[p].deploymentID = id
                         /\ ep[p].did})
Returned(et, id) ==
    {i \in 1..Len(hist) : hist[i].eType = et /\ hist[i].deploymentID = id}

\* url.Parse accepts the text of the type's template for the deployment.
Parses(et, id) == set(et, WithDeployment(ClientVars, id)).err = NilErr

\* The calls for one type and deployment, however they overlap: one of
\* them at most runs set, exactly one once a call has returned; all return
\* the same URL, and the map holds no other URL for them.
OneSetPerKey(et, id) ==
    /\ SetRuns(et, id) <= 1
    /\ Returned(et, id) # {} => SetRuns(et, id) = 1
    /\ \A i, j \in Returned(et, id) : hist[i].u = hist[j].u
    /\ \A i \in Returned(et, id) :
          Cached(et, id).isNil \/ Cached(et, id) = hist[i].u

\* C14 as it is stated: one caller at a time is between Lock and Unlock,
\* and for every type and deployment exactly one call makes the URL.
C14_OneSetForAll ==
    /\ Cardinality(Holding) <= 1
    /\ \A et \in EndpointTypes, id \in DeploymentIDs : OneSetPerKey(et, id)

\* C14: one caller at a time is between Lock and Unlock (the holder of the
\* mutex); for every type and deployment whose text url.Parse accepts,
\* exactly one of the calls, however they overlap, runs the template and
\* url.Parse, all return the same URL and the map never holds another.
C14_OneSetPerParsedKey ==
    /\ Cardinality(Holding) <= 1
    /\ Holding # {} => mu \in Holding
    /\ \A et \in EndpointTypes, id \in DeploymentIDs :
          Parses(et, id) => OneSetPerKey(et, id)

\* Two calls for one deployment, the second begun while the first was
\* under way and the map held no URL for it: the first made the URL and
\* the second, having waited for the mutex, found it.
C14_Witness ==
    /\ Len(hist) = 2
    /\ SameKey(1, 2)
    /\ hist[2].raced
    /\ hist[1].did /\ ~hist[2].did
    /\ ~hist[1].u.isNil /\ hist[2].u = hist[1].u

\* ------------------------------------------------------------------------
\* C15
\* ------------------------------------------------------------------------
\* The path of the service for an endpoint type.
ServicePath(et) ==
    IF et = "completions" THEN <<"completions">>
    ELSE IF et = "embeddings" THEN <<"embeddings">>
    ELSE <<"chat", "/", "completions">>

\* https://<resource>.openai.azure.com/openai/deployments/<id>/<path>
\*    ?api-version=2023-03-15-preview
ServiceURL(et, id) ==
    <<"https", ":", "/", "/", "test", ".openai.azure.com", "/", "openai",
      "/", "deployments", "/">> \o id \o <<"/">> \o ServicePath(et)
       \o <<"?", "api-version=", "2023-03-15-preview">>

\* A URL is that of the service for the type and the deployment: as a
\* text, and in its parts.
IsServiceURL(u, et, id) ==
    /\ ~u.isNil
    /\ String(u) = ServiceURL(et, id)
    /\ u.Scheme = <<"https">>
    /\ u.Host = <<"test", ".openai.azure.com">>
    /\ u.Path = <<"/", "openai", "/", "deployments", "/">> \o id
                   \o <<"/">> \o ServicePath(et)
    /\ u.RawQuery = <<"api-version=", "2023-03-15-preview">>
    /\ u.Fragment = <<>>

KeepsOtherKeys ==
    \A et \in EndpointTypes, id \in DeploymentIDs :
       /\ ~Cached(et, id).isNil => Cached(et, id)' = Cached(et, id)
       /\ Cached(et, id)' # Cached(et, id) =>
             \E p \in Procs :
                /\ ep[p].pc = "set"
                /\ ep[p].eType = et
                /\ ep[p].deploymentID = id
                /\ ep'[p].pc = "unlock"

\* A call for a type and deployment that returned a URL before returns
\* that URL, whatever was resolved in between.
ReturnsOriginal ==
    \A i, j \in 1..Len(hist) :
       (i < j /\ SameKey(i, j) /\ ~hist[i].u.isNil) => hist[j].u = hist[i].u

\* C16: a call of url changes the map for no type and deployment but its
\* own, and no URL the map holds is ever changed; so after other
\* deployments or other types were resolved a call for the original type
\* and deployment returns the original URL.
C16_OtherKeysUnchanged == [][KeepsOtherKeys]_vars /\ []ReturnsOriginal

\* TestEndpoints: deployment1 resolved for completions, then deployment2,
\* then deployment1 again, found in the map as it was made.
C16_Witness ==
    /\ Len(hist) = 3
    /\ \A i \in 1..3 : hist[i].eType = completionsTmpl /\ ~hist[i].raced
    /\ hist[1].deploymentID = <<"deployment1">>
    /\ hist[2].deploymentID = <<"deployment2">>
    /\ hist[3].deploymentID = <<"deployment1">>
    /\ hist[1].did /\ hist[2].did /\ ~hist[3].did
    /\ ~hist[1].u.isNil /\ hist[3].u = hist[1].u
    /\ Cached(completionsTmpl, <<"deployment2">>) = hist[2].u

\* ------------------------------------------------------------------------
\* New and Authorize: a client and the requests it authorizes
\* ------------------------------------------------------------------------
\* The caller has built an Authorizer and is about to call New.
AuthInit ==
    /\ CallIdle
    /\ EpIdle
    /\ MoreIdle
    /\ auth \in AuthInputs
    /\ client = NoClient
    /\ authPC = "new"
    /\ hreq = <<>>
    /\ reqs = <<>>
    /\ issued = <<>>

\* rest.New or azopenai.New, with or without WithClient.
AuthNew ==
    /\ authPC = "new"
    /\ \E http \in {"nil", "custom"} :
       \E made \in {RestNew(auth, http), AzNew(auth, http)} :
          /\ client' = made
          /\ authPC' = IF made.ok THEN "idle" ELSE "failed"
    /\ UNCHANGED <<auth, hreq, reqs, issued>>
    /\ UNCHANGED <<callVars, epVars, moreVars>>

\* send or stream makes a request and calls c.auth.Authorize(ctx, hreq);
\* the credential, if it is asked, returns a token or an error.
AuthAuthorize ==
    /\ authPC = "idle"
    /\ Len(reqs) < MaxRequests
    /\ \E t \in TokenResults :
          LET asked == CallsGetToken(client.auth)
              r == Authorize(client.auth, t)
          IN  /\ issued' = IF asked THEN Append(issued, t) ELSE issued
              /\ hreq' = r.hdr
              /\ reqs' = Append(reqs, [hdr |-> r.hdr, err |-> r.err])
    /\ UNCHANGED <<auth, client, authPC>>
    /\ UNCHANGED <<callVars, epVars, moreVars>>

AuthNext == AuthNew \/ AuthAuthorize

AuthSpec == AuthInit /\ [][AuthNext]_vars

\* ------------------------------------------------------------------------
\* C17
\* ------------------------------------------------------------------------
\* C17: once New has returned, it has returned a client and no error if
\* the Authorizer has an API key or a credential, and no client and an
\* error if it has neither, whatever its token policy.
C17_NewNeedsKeyOrCredential ==
    authPC # "new" =>
       IF auth.ApiKey # "" \/ auth.Credential # "nil"
       THEN client.ok /\ client.err = NilErr /\ authPC = "idle"
       ELSE /\ ~client.ok
            /\ client.err # NilErr
            /\ client.auth = ZeroAuthorizer
            /\ authPC = "failed"
            /\ reqs = <<>>

\* New refused an Authorizer that has a token policy and no credential.
C17_Witness ==
    /\ auth = Authorizer("", "nil", "scopes", unknown)
    /\ authPC = "failed"
    /\ ~client.ok
    /\ client.err = PlainErr("missing Credential")

\* ------------------------------------------------------------------------
\* C18
\* ------------------------------------------------------------------------
\* The client authorizes with the credential.
UsesCredential == client.ok /\ client.auth.method = useAzIdentity

\* The pieces of the value of a header of a request, <<>> if it has none.
HeaderOf(hdr, name) ==
    IF \E i \in 1..Len(hdr) : hdr[i][1] = name
    THEN hdr[CHOOSE i \in 1..Len(hdr) : hdr[i][1] = name][2]
    ELSE <<>>
Mentions(value, piece) == \E i \in 1..Len(value) : value[i] = piece

\* C18: with a client that authorizes with the credential, GetToken has
\* been called once for each request authorized; request i got the i-th
\* answer of the credential: its error, or its token in the Authorization
\* header.
C18_OneGetTokenPerRequest ==
    UsesCredential =>
       /\ Len(issued) = Len(reqs)
       /\ \A i \in 1..Len(reqs) :
             /\ reqs[i].err = issued[i].err
             /\ issued[i].err = NilErr =>
                   Mentions(HeaderOf(reqs[i].hdr, "Authorization"),
                            issued[i].tok.Token)

\* Three requests; the credential answered t1, then t2, then t1 again, and
\* each request carries the token of its own call.
C18_Witness ==
    /\ UsesCredential
    /\ Len(reqs) = 3
    /\ Len(issued) = 3
    /\ issued[1].tok.Token = "t1"
    /\ issued[2].tok.Token = "t2"
    /\ issued[3].tok.Token = "t1"
    /\ Mentions(HeaderOf(reqs[2].hdr, "Authorization"), "t2")
    /\ ~Mentions(HeaderOf(reqs[3].hdr, "Authorization"), "t2")

\* ------------------------------------------------------------------------
\* C19
\* ------------------------------------------------------------------------
\* C19: with a client that authorizes with the credential, a request for
\* which GetToken returned a token has the header Authorization with the
\* value "Bearer " followed by the token string, and the header
\* Content-Type with the value application/json.
C19_BearerToken ==
    UsesCredential =>
       \A i \in 1..Len(reqs) :
          (i <= Len(issued) /\ issued[i].err = NilErr) =>
             /\ reqs[i].err = NilErr
             /\ HeaderOf(reqs[i].hdr, "Authorization")
                   = <<"Bearer ", issued[i].tok.Token>>
             /\ HeaderOf(reqs[i].hdr, "Content-Type")
                   = <<"application/json">>

\* ------------------------------------------------------------------------
\* C20
\* ------------------------------------------------------------------------
\* C20: with a client made from an Authorizer that has an API key, with
\* or without a credential, every request authorized has the one header
\* api-key with the key as its value, Authorize returned no error, and
\* GetToken has not been called.
C20_ApiKeyOnly ==
    (client.ok /\ auth.ApiKey # "") =>
       /\ issued = <<>>
       /\ \A i \in 1..Len(reqs) :
             /\ reqs[i].err = NilErr
             /\ reqs[i].hdr = << <<"api-key", <<auth.ApiKey>> >> >>

\* Two requests of a client whose Authorizer has a key and a credential.
C20_Witness ==
    /\ client.ok
    /\ auth = Authorizer("key", "cred", "scopes", unknown)
    /\ client.auth.method = useApiKey
    /\ Len(reqs) = 2
    /\ HeaderOf(reqs[2].hdr, "api-key") = <<"key">>
    /\ issued = <<>>

\* ------------------------------------------------------------------------
\* Completions, Embeddings, Chat: the response decoded and returned
\* ------------------------------------------------------------------------
\* An entry of a response (a Choice, a Data): its index and the rest of it.
Entries == [Index : 0..MaxIndex, val : {"a", "b"}]
EntryLists == UNION {[1..n -> Entries] : n \in 0..MaxEntries}

\* What send and json.Unmarshal make of a call: an error of send, a body
\* that does not decode, or the entries in the order of the body.
Responses ==
    {[kind |-> k, data |-> <<>>] : k \in {"sendErr", "badJSON"}}
       \cup {[kind |-> "list", data |-> l] : l \in EntryLists}

\* The less function given to sort.Slice.
Less_Reversed(a, b) == a.Index > b.Index

Less(a, b) == a.Index < b.Index

\* sort.Slice on a short slice is an insertion sort: each entry in turn is
\* swapped towards the front while it is less than the one before it.
RECURSIVE SortSlice(_)
SortSlice(s) ==
    IF Len(s) <= 1 THEN s
    ELSE LET front == SortSlice(SubSeq(s, 1, Len(s) - 1))
             x == s[Len(s)]
             stop == {0} \cup {j \in 1..Len(front) : ~Less(x, front[j])}
             at == CHOOSE j \in stop : \A k \in stop : k <= j
         IN  SubSeq(front, 1, at) \o <<x>> \o SubSeq(front, at + 1, Len(front))

\* Completions returns msg as decoded; Embeddings and Chat sort it first.
Normalize(api, data) ==
    IF api \in {"Embeddings", "Chat"} THEN SortSlice(data) ELSE data

\* The call returns send's error, the wrapped error of json.Unmarshal, or
\* the message.
NormCall ==
    /\ norm.pc = "call"
    /\ norm' = [norm EXCEPT
          !.pc = "returned",
          !.ret = CASE norm.resp.kind = "sendErr" ->
                          [data |-> <<>>, err |-> PlainErr("send")]
                    [] norm.resp.kind = "badJSON" ->
                          [data |-> <<>>,
                           err |-> WrapErr("problem unmarshaling the response body",
                                           PlainErr("json.SyntaxError"))]
                    [] OTHER ->
                          [data |-> Normalize(norm.api, norm.resp.data),
                           err |-> NilErr]]
    /\ UNCHANGED <<callVars, authVars, epVars, pool, emb>>

NormInit ==
    /\ CallIdle /\ AuthIdle /\ EpIdle
    /\ pool = [pc |-> "off"]
    /\ emb = [pc |-> "off"]
    /\ \E api \in {"Completions", "Embeddings", "Chat"}, r \in Responses :
          norm = [pc |-> "call", api |-> api, resp |-> r,
                  ret |-> [data |-> <<>>, err |-> NilErr]]

NormSpec == NormInit /\ [][NormCall]_vars

\* A list is in ascending order of Index; two lists hold the same entries
\* the same number of times.
Ascending(s) == \A i, j \in 1..Len(s) : i < j => s[i].Index <= s[j].Index
Times(s, e) == Cardinality({i \in 1..Len(s) : s[i] = e})
SameEntries(s, t) == Len(s) = Len(t) /\ \A e \in Entries : Times(s, e) = Times(t, e)
NormReturned(api) ==
    norm.pc = "returned" /\ norm.api = api /\ norm.ret.err = NilErr

\* ------------------------------------------------------------------------
\* C21
\* ------------------------------------------------------------------------
\* C21: the list a successful Embeddings or Chat call returns holds the
\* decoded entries, each as often as the body held it, in ascending order
\* of Index, whatever the order of the body.
C21_SortedPermutation ==
    (NormReturned("Embeddings") \/ NormReturned("Chat")) =>
       /\ norm.resp.kind = "list"
       /\ Ascending(norm.ret.data)
       /\ SameEntries(norm.ret.data, norm.resp.data)

\* Embeddings got the entries 2, 0, 1 and returned them as 0, 1, 2.
C21_Witness ==
    /\ NormReturned("Embeddings")
    /\ Len(norm.resp.data) = 3
    /\ norm.resp.data[1].Index = 2
    /\ norm.resp.data[2].Index = 0
    /\ norm.resp.data[3].Index = 1
    /\ \A i \in 1..3 : norm.ret.data[i].Index = i - 1

\* ------------------------------------------------------------------------
\* C22
\* ------------------------------------------------------------------------
\* C22: the list a successful Completions call returns is in ascending
\* order of Index, whatever the order of the body.
C22_CompletionsSorted ==
    NormReturned("Completions") => Ascending(norm.ret.data)

\* ------------------------------------------------------------------------
\* C23
\* ------------------------------------------------------------------------
\* send has returned; stream has returned to CompletionsStream's goroutine.
SendOver == csPC = "idle" /\ sendPC = "returned"
StreamOver ==
    /\ csPC # "idle"
    /\ goPC \in {"range", "send", "sendErr", "closing", "exited"}

\* C23: of a call of send or stream, Get is called once at most and Put
\* never more often than Get; once the call has returned Put has been
\* called as often as Get, on every path, and no buffer is out.
C23_BufferReturnedOnce ==
    /\ Cardinality(Calls("Put")) <= Cardinality(Calls("Get"))
    /\ Cardinality(Calls("Get")) <= 1
    /\ buffOut = Cardinality(Calls("Get")) - Cardinality(Calls("Put"))
    /\ (SendOver \/ StreamOver) =>
          /\ Cardinality(Calls("Put")) = Cardinality(Calls("Get"))
          /\ buffOut = 0

\* send has returned the error of a failed read of a 200 response's body,
\* having borrowed a buffer and returned it.
C23_Witness ==
    /\ SendOver
    /\ status = StatusOK
    /\ read.failed
    /\ sendRet.err # NilErr
    /\ Cardinality(Calls("Get")) = 1
    /\ Cardinality(Calls("Put")) = 1
    /\ buffOut = 0

\* ------------------------------------------------------------------------
\* requestsBuff: the pool of request bodies and the callers sharing it
\* ------------------------------------------------------------------------
\* Room of the channel of the pool.
BuffersCap == 100

\* A buffer: its bytes (nil reads as empty) and its read position.
Buffer(b, ptr) == [b |-> b, ptr |-> ptr]

\* The bytes of the request of a caller.
Msg(p) == [i \in 1..2 |-> p]

\* The pointer type the channel of a pool carries and Get asserts, and the
\* type of what New of its sync.Pool returns; the pool of *buffer and the
\* pool of *Buffer.
PoolElem(variant) == IF variant = "Buffer" THEN "*Buffer" ELSE "*buffer"
PoolNew(variant) == IF variant = "Buffer" THEN "*bytes.Buffer" ELSE "*buffer"

\* bufferPool.Get, its possible outcomes: the buffer at the head of the
\* channel buffers; with an empty channel what pool.Get() gives, any of the
\* buffers put into the sync.Pool (over) or what New returns, the buffer
\* after the made ones.  from tells where it came from, type its dynamic
\* type (elem for what has been put).
PoolGet(buffers, over, made, elem, new) ==
    IF buffers # <<>>
    THEN {[from |-> "ring", id |-> Head(buffers), type |-> elem,
           buffers |-> Tail(buffers), over |-> over]}
    ELSE {[from |-> "pool", id |-> i, type |-> elem,
           buffers |-> buffers, over |-> over \ {i}] : i \in over}
         \cup {[from |-> "new", id |-> made + 1, type |-> new,
                buffers |-> buffers, over |-> over]}

\* The Put without the default of its select: it waits for room.
PoolPut_NoDefault(buffers, over, id) ==
    IF Len(buffers) < BuffersCap
    THEN {[buffers |-> Append(buffers, id), over |-> over]}
    ELSE {}

\* bufferPool.Put, its possible outcomes: into the channel while it has
\* room, else into the sync.Pool; the buffer is put back as it is.
PoolPut(buffers, over, id) ==
    IF Len(buffers) < BuffersCap
    THEN {[buffers |-> Append(buffers, id), over |-> over]}
    ELSE {[buffers |-> buffers, over |-> over \cup {id}]}

\* The Read that reports the end one call late.
Read_LateEOF(buf, n) ==
    LET k == IF buf.ptr >= Len(buf.b) THEN 0
             ELSE IF Len(buf.b) - buf.ptr < n THEN Len(buf.b) - buf.ptr
             ELSE n
    IN  [data |-> SubSeq(buf.b, buf.ptr + 1, buf.ptr + k),
         err |-> IF buf.ptr > Len(buf.b) THEN "io.EOF" ELSE "nil",
         buf |-> Buffer(buf.b, IF buf.ptr >= Len(buf.b) THEN buf.ptr + 1
                               ELSE buf.ptr + k)]

\* (*buffer).Read(p) with room for n bytes: the bytes copied, the error
\* (io.EOF with the position at the end of b) and the buffer after.
Read(buf, n) ==
    LET k == IF buf.ptr >= Len(buf.b) THEN 0
             ELSE IF Len(buf.b) - buf.ptr < n THEN Len(buf.b) - buf.ptr
             ELSE n
    IN  [data |-> SubSeq(buf.b, buf.ptr + 1, buf.ptr + k),
         err |-> IF buf.ptr >= Len(buf.b) THEN "io.EOF" ELSE "nil",
         buf |-> Buffer(buf.b, buf.ptr + k)]

\* (*buffer).Close: b = nil, ptr = 0
Close(buf) == Buffer(<<>>, 0)

\* (*buffer).Reset(buff): b = buff, ptr = 0
Reset(buf, buff) == Buffer(buff, 0)

\* buff := requestsBuff.Get(); buff.Reset(msg); hreq.Body = buff
PoolBorrow(p) ==
    /\ pool.pc = "on"
    /\ pool.call[p].pc = "idle"
    /\ ~pool.tr[p].active
    /\ pool.begun < MaxRequests
    /\ \E g \in PoolGet(pool.buffers, pool.over, Len(pool.bufs),
                       PoolElem("buffer"), PoolNew("buffer")) :
        LET bufs == IF g.id > Len(pool.bufs)
                    THEN Append(pool.bufs, Buffer(<<>>, 0))
                    ELSE pool.bufs
        IN pool' = [pool EXCEPT
              !.begun = @ + 1,
              !.buffers = g.buffers,
              !.over = g.over,
              !.bufs = [bufs EXCEPT ![g.id] = Reset(bufs[g.id], Msg(p))],
              !.owner = IF g.id > Len(@) THEN Append(@, p)
                        ELSE [@ EXCEPT ![g.id] = p],
              !.call[p] = [pc |-> "do", buff |-> g.id, got |-> bufs[g.id],
                           readBack |-> g.id <= Len(pool.readBack)
                                        /\ pool.readBack[g.id]],
              !.tr[p] = [active |-> TRUE, buff |-> g.id, sent |-> <<>>]]
    /\ UNCHANGED <<callVars, authVars, epVars, norm, emb>>

\* The transport reads the body of the request of p: hreq.Body.Read.
TransportRead(p) ==
    /\ pool.pc = "on"
    /\ pool.tr[p].active
    /\ LET id == pool.tr[p].buff
           r == Read(pool.bufs[id], 1)
       IN  /\ r.data # <<>>
           /\ pool' = [pool EXCEPT !.bufs[id] = r.buf,
                                   !.tr[p].sent = @ \o r.data]
    /\ UNCHANGED <<callVars, authVars, epVars, norm, emb>>

\* The transport closes the body of the request of p, during Do or in a
\* goroutine of its own after Do has returned: (*buffer).Close.
TransportClose(p) ==
    /\ pool.pc = "on"
    /\ pool.tr[p].active
    /\ pool' = [pool EXCEPT !.bufs[pool.tr[p].buff] = Close(@),
                            !.tr[p].active = FALSE]
    /\ UNCHANGED <<callVars, authVars, epVars, norm, emb>>

\* c.client.Do(hreq) returns, a response or an error.
PoolDo(p) ==
    /\ pool.pc = "on"
    /\ pool.call[p].pc = "do"
    /\ pool' = [pool EXCEPT !.call[p].pc = "put"]
    /\ UNCHANGED <<callVars, authVars, epVars, norm, emb>>

\* send or stream returns: the deferred requestsBuff.Put(buff).  readBack
\* notes whether the whole request had been read from the buffer by then.
PoolReturn(p) ==
    /\ pool.pc = "on"
    /\ pool.call[p].pc = "put"
    /\ \E r \in PoolPut(pool.buffers, pool.over, pool.call[p].buff) :
       pool' = [pool EXCEPT
          !.buffers = r.buffers,
          !.over = r.over,
          !.owner[pool.call[p].buff] = 0,
          !.readBack = LET id == pool.call[p].buff
                           whole == pool.tr[p].sent = Msg(p)
                       IN  IF id > Len(@) THEN Append(@, whole)
                           ELSE [@ EXCEPT ![id] = whole],
          !.call[p] = [pc |-> "idle", buff |-> 0, got |-> Buffer(<<>>, 0),
                       readBack |-> FALSE]]
    /\ UNCHANGED <<callVars, authVars, epVars, norm, emb>>

\* newBufferPool(): an empty channel, no buffer made yet.
PoolInit ==
    /\ CallIdle /\ AuthIdle /\ EpIdle
    /\ norm = [pc |-> "off"]
    /\ emb = [pc |-> "off"]
    /\ pool = [pc |-> "on", begun |-> 0, buffers |-> <<>>, over |-> {},
               bufs |-> <<>>,
               owner |-> <<>>, readBack |-> <<>>,
               call |-> [p \in Procs |->
                           [pc |-> "idle", buff |-> 0,
                            got |-> Buffer(<<>>, 0), readBack |-> FALSE]],
               tr |-> [p \in Procs |->
                         [active |-> FALSE, buff |-> 0, sent |-> <<>>]]]

PoolNext ==
    \E p \in Procs :
       \/ PoolBorrow(p)
       \/ TransportRead(p)
       \/ TransportClose(p)
       \/ PoolDo(p)
       \/ PoolReturn(p)

PoolSpec == PoolInit /\ [][PoolNext]_vars

\* C24: while the transport still reads the body of a request from a
\* buffer, that buffer belongs to no other call: it is neither handed to
\* another borrower nor reset with another request's bytes.
C24_NoReuseInFlight ==
    pool.pc = "on" =>
       \A p \in Procs :
          pool.tr[p].active => pool.owner[pool.tr[p].buff] \in {0, p}

\* C25: a buffer that was borrowed, loaded, read and returned comes out of
\* the next borrow clean: no bytes and the read position at 0.
C25_CleanAfterRoundTrip ==
    pool.pc = "on" =>
       \A p \in Procs :
          pool.call[p].pc # "idle" /\ pool.call[p].readBack
             => pool.call[p].got = Buffer(<<>>, 0)

\* ------------------------------------------------------------------------
\* The sub-clients of an azopenai.Client; embeddings.Client
\* ------------------------------------------------------------------------
\* Most sub-clients a caller asks for.
MaxSubs == 2

\* CallParams, and a *CallParams (the atomic.Pointer of a Client, or the
\* parameters of a WithCallParams option): nil, or pointing at a value.
CallParams(user, type, model) == [User |-> user, Type |-> type, Model |-> model]
SomeParams == {CallParams("u1", "", "m1"), CallParams("", "t2", "m2")}
NilParams == [isNil |-> TRUE, v |-> CallParams("", "", "")]
ParamsPtrs ==
    {NilParams} \cup
    {[isNil |-> FALSE, v |-> p] : p \in SomeParams \cup {CallParams("", "", "")}}

\* CallParams.toEmbeddingsRequest, with req.Input = text
toEmbeddingsRequest(c, text) ==
    [Type |-> c.Type, Model |-> c.Model, Input |-> text, User |-> c.User]

\* Call: the CallParams of the call after the options have run, with
\* option the parameters of WithCallParams (nil without that option) and
\* stored what c.CallParams.Load() returns.
ParamsOfCall_StoredFirst(option, stored) ==
    IF ~stored.isNil THEN stored.v ELSE option.v

ParamsOfCall(option, stored) ==
    IF ~option.isNil THEN option.v
    ELSE IF ~stored.isNil THEN stored.v
    ELSE CallParams("", "", "")

\* embeddings.New: the Client a call of Embeddings allocates, as its place
\* among objs.
NewSubClient_Cached(objs, kind) ==
    IF \E i \in 1..Len(objs) : objs[i].kind = kind
    THEN CHOOSE i \in 1..Len(objs) : objs[i].kind = kind
    ELSE Len(objs) + 1

NewSubClient(objs, kind) == Len(objs) + 1

\* completions.New and chat.New, each returning a new instance as well.
NewOtherClient(objs, kind) == Len(objs) + 1

\* azopenai.Client.Completions, .Embeddings, .Chat: the caller gets a
\* pointer to a Client made of the deployment ID and c.rest.
SubNew ==
    /\ emb.pc = "on"
    /\ Len(emb.handles) < MaxSubs
    /\ \E kind \in {"completions", "embeddings", "chat"} :
          LET ref == IF kind = "embeddings"
                     THEN NewSubClient(emb.objs, kind)
                     ELSE NewOtherClient(emb.objs, kind)
          IN  emb' = [emb EXCEPT
                 !.handles = Append(@, ref),
                 !.objs = IF ref > Len(@)
                          THEN Append(@, [kind |-> kind,
                                          deploymentID |-> "deployment1",
                                          rest |-> emb.rest,
                                          CallParams |-> NilParams])
                          ELSE @]
    /\ UNCHANGED <<callVars, authVars, epVars, norm, pool>>

\* (*embeddings.Client).SetParams through one of the caller's pointers
SubSetParams ==
    /\ emb.pc = "on"
    /\ \E h \in 1..Len(emb.handles), p \in SomeParams :
          /\ emb.objs[emb.handles[h]].kind = "embeddings"
          /\ emb' = [emb EXCEPT !.objs[emb.handles[h]].CallParams =
                                    [isNil |-> FALSE, v |-> p],
                                 !.setBy = h]
    /\ UNCHANGED <<callVars, authVars, epVars, norm, pool>>

\* (*embeddings.Client).Call, with or without WithCallParams: the request
\* it hands to rest.Embeddings.
SubCall ==
    /\ emb.pc = "on"
    /\ \E h \in 1..Len(emb.handles), option \in ParamsPtrs :
          LET c == emb.objs[emb.handles[h]]
          IN  /\ c.kind = "embeddings"
              /\ emb' = [emb EXCEPT !.last =
                    [h |-> h, option |-> option, stored |-> c.CallParams,
                     rest |-> c.rest, deploymentID |-> c.deploymentID,
                     req |-> toEmbeddingsRequest(
                                ParamsOfCall(option, c.CallParams),
                                <<"text">>)]]
    /\ UNCHANGED <<callVars, authVars, epVars, norm, pool>>

NoCall ==
    [h |-> 0, option |-> NilParams, stored |-> NilParams, rest |-> "nil",
     deploymentID |-> "",
     req |-> toEmbeddingsRequest(CallParams("", "", ""), <<>>)]

\* azopenai.New has made a Client around a rest client.
SubInit ==
    /\ CallIdle /\ AuthIdle /\ EpIdle
    /\ norm = [pc |-> "off"]
    /\ pool = [pc |-> "off"]
    /\ emb = [pc |-> "on", rest |-> "rest", objs |-> <<>>, handles |-> <<>>,
              setBy |-> 0, last |-> NoCall]

SubNext == SubNew \/ SubSetParams \/ SubCall

SubSpec == SubInit /\ [][SubNext]_vars

\* The CallParams a call is to use by the claim: the override, else what
\* SetParams stored last, else the zero value.
Wanted(call) ==
    CASE ~call.option.isNil -> call.option.v
      [] ~call.stored.isNil -> call.stored.v
      [] OTHER -> [User |-> "", Type |-> "", Model |-> ""]

\* C26: the request of a Call carries the parameters of WithCallParams
\* when that option is given, else those of the latest SetParams, else the
\* zero defaults; and a Call leaves the stored parameters as they were.
C26_ParamsPrecedence ==
    /\ [](emb.pc = "on" /\ emb.last.h # 0 =>
            /\ emb.last.req.User = Wanted(emb.last).User
            /\ emb.last.req.Type = Wanted(emb.last).Type
            /\ emb.last.req.Model = Wanted(emb.last).Model)
    /\ [][emb.pc = "on" /\ emb'.last # emb.last => emb'.objs = emb.objs]_vars

C26_Witness ==
    /\ emb.pc = "on"
    /\ emb.last.h # 0
    /\ ~emb.last.option.isNil
    /\ ~emb.last.stored.isNil
    /\ emb.last.option.v # emb.last.stored.v
    /\ emb.last.req.Model = emb.last.option.v.Model

MaxInput == 2050

\* The most entries an Input may have.
MaxInputEntries == 2048

\* Req.Validate
ReqValidate_AtLimit(e) ==
    IF Len(e.Input) = 0 THEN PlainErr("input is required")
    ELSE IF Len(e.Input) >= MaxInputEntries
    THEN PlainErr("input cannot have more than 2048 entries")
    ELSE NilErr

ReqValidate(e) ==
    IF Len(e.Input) = 0 THEN PlainErr("input is required")
    ELSE IF Len(e.Input) > MaxInputEntries
    THEN PlainErr("input cannot have more than 2048 entries")
    ELSE NilErr

\* A caller validates the request it built.
ReqValidateCall ==
    /\ emb.pc = "req"
    /\ emb' = [emb EXCEPT !.pc = "validated", !.err = ReqValidate(emb.req)]
    /\ UNCHANGED <<callVars, authVars, epVars, norm, pool>>

\* A request as toEmbeddingsRequest leaves it, with any number of entries.
ReqInit ==
    /\ CallIdle /\ AuthIdle /\ EpIdle
    /\ norm = [pc |-> "off"]
    /\ pool = [pc |-> "off"]
    /\ \E c \in SomeParams, n \in 0..MaxInput :
          emb = [pc |-> "req",
                 req |-> toEmbeddingsRequest(c, [i \in 1..n |-> "text"]),
                 err |-> NilErr]

ReqSpec == ReqInit /\ [][ReqValidateCall]_vars

\* C28: Validate returns an error exactly when Input has no entry or more
\* than 2048 entries; 1 to 2048 entries are accepted.
C28_InputBounds ==
    emb.pc = "validated" =>
       (emb.err # NilErr <=>
           Len(emb.req.Input) = 0 \/ Len(emb.req.Input) > 2048)

C28_Witness ==
    /\ emb.pc = "validated"
    /\ Len(emb.req.Input) = 2048
    /\ emb.err = NilErr

\* ------------------------------------------------------------------------
\* C29
\* ------------------------------------------------------------------------
\* The line carries the header once it is trimmed.
HasHeader(t) == HasPrefix(TrimSpace(t \o <<"\n">>), streamHeader)

\* The payloads of the lines ls, in order.
RECURSIVE PayloadsOfLines(_)
PayloadsOfLines(ls) ==
    IF ls = <<>> THEN <<>>
    ELSE IF WirePayload(Head(ls)) = <<>> THEN PayloadsOfLines(Tail(ls))
    ELSE <<WirePayload(Head(ls))>> \o PayloadsOfLines(Tail(ls))

\* C29: the pass on a line that does not start with the header once it is
\* trimmed sends nothing, neither payload nor error, and the loop reads
\* on; the payloads sent are those of the lines with the header, as if the
\* other lines were not there.
C29_SkipsUnprefixedLines ==
    /\ [][(nRead' = nRead + 1 /\ ~HasHeader(wire[nRead + 1]))
             => /\ loopPC' = "read"
                /\ loopMsg' = NoMsg
                /\ responses' = responses
                /\ exitVia' = exitVia]_vars
    /\ [](loopPC = "read" =>
            DataOf(InnerSent) =
               PayloadsOfLines(SelectSeq(SubSeq(wire, 1, nRead), HasHeader)))

\* A line without the header was read between two payload lines, and both
\* payloads were sent.
C29_Witness ==
    /\ Len(wire) = 3
    /\ ~HasHeader(wire[2])
    /\ nRead = 3
    /\ loopPC = "read"
    /\ DataOf(InnerSent) = <<WirePayload(wire[1]), WirePayload(wire[3])>>
    /\ WirePayload(wire[1]) # <<>>
    /\ WirePayload(wire[3]) # <<>>

\* ------------------------------------------------------------------------
\* C30
\* ------------------------------------------------------------------------
\* C30: when the read loop has ended with a read error and the consumer
\* has seen the close, the last message the consumer received carries that
\* error, as it is or wrapped.
C30_ReadErrorDelivered ==
    (consumer = "done" /\ exitVia = "err" /\ got # <<>>
        /\ IsErrMsg(got[Len(got)]))
       => /\ recv # <<>>
          /\ \/ recv[Len(recv)].Err = got[Len(got)].Err
             \/ recv[Len(recv)].Err =
                   WrapErr("problem unmarshaling the response body",
                           got[Len(got)].Err)

\* ------------------------------------------------------------------------
\* C31
\* ------------------------------------------------------------------------
\* C31: a URL the map holds for a type and a deployment stays as it is:
\* no step of any call of url changes or removes it.
C31_WriteOncePerKey ==
    [][\A et \in EndpointTypes, id \in DeploymentIDs :
          ~Cached(et, id).isNil => Cached(et, id)' = Cached(et, id)]_vars

\* A URL was stored; then a call for its key and a call that stored the
\* URL of another deployment of the type have returned, and it is there.
C31_Witness ==
    /\ Len(hist) = 3
    /\ hist[1].did /\ hist[1].err = NilErr
    /\ SameKey(1, 2) /\ ~hist[2].did
    /\ hist[3].eType = hist[1].eType
    /\ hist[3].deploymentID # hist[1].deploymentID
    /\ hist[3].did /\ hist[3].err = NilErr
    /\ Cached(hist[1].eType, hist[1].deploymentID) = hist[1].u

\* ------------------------------------------------------------------------
\* C32
\* ------------------------------------------------------------------------
\* C32: a call of url whose set fails returns the error and no URL, leaves
\* the map as it was with no URL for its key, does not run set again, and
\* gives the mutex back: nobody outside url holds it.
C32_FailedResolution ==
    /\ [](\A i \in 1..Len(hist) :
             hist[i].err # NilErr =>
                /\ hist[i].u = NilURL
                /\ Cached(hist[i].eType, hist[i].deploymentID).isNil)
    /\ [](mu # 0 => ep[mu].pc \in {"set", "unlock"})
    /\ [][\A p \in Procs :
            (ep[p].pc = "set" /\ ep'[p].err # NilErr)
               => /\ ep'[p].pc = "unlock"
                  /\ \A et \in EndpointTypes, id \in DeploymentIDs :
                        Cached(et, id)' = Cached(et, id)]_vars
    /\ [][\A p \in Procs :
            (ep[p].err # NilErr /\ ep'[p] # ep[p])
               => (ep'[p].pc = "idle" /\ mu' = 0)]_vars

\* A call failed and returned while the map held a URL; a later call got
\* the mutex and its URL, and the map still holds the first URL.
C32_Witness ==
    /\ Len(hist) = 3
    /\ hist[1].did /\ hist[1].err = NilErr
    /\ hist[2].did /\ hist[2].err # NilErr /\ hist[2].u = NilURL
    /\ hist[3].did /\ hist[3].err = NilErr /\ ~hist[3].u.isNil
    /\ Cached(hist[1].eType, hist[1].deploymentID) = hist[1].u
    /\ mu = 0

\* ------------------------------------------------------------------------
\* bufferPool: Get and Put in any order
\* ------------------------------------------------------------------------
\* Most buffers borrowed at a time, and most calls of Get and Put followed.
MaxOut == 2
MaxOps == 3

\* Get: the buffer goes to its borrower; the assertion of the pool's type
\* on what the sync.Pool returned panics on another type.
RingGet ==
    /\ pool.pc = "ring"
    /\ pool.ops < MaxOps
    /\ Cardinality(pool.out) < MaxOut
    /\ \E g \in PoolGet(pool.buffers, pool.over, pool.made,
                       PoolElem(pool.variant), PoolNew(pool.variant)) :
          IF g.type # PoolElem(pool.variant)
          THEN pool' = [pool EXCEPT !.pc = "panic", !.ops = @ + 1,
                                    !.op = "Get", !.id = 0]
          ELSE pool' = [pool EXCEPT
                  !.ops = @ + 1, !.op = "Get", !.id = g.id,
                  !.from = g.from,
                  !.buffers = g.buffers, !.over = g.over,
                  !.out = @ \cup {g.id},
                  !.made = IF g.id > @ THEN g.id ELSE @]
    /\ UNCHANGED <<callVars, authVars, epVars, norm, emb>>

\* Put of a borrowed buffer.
RingPut ==
    /\ pool.pc = "ring"
    /\ pool.ops < MaxOps
    /\ \E id \in pool.out :
       \E r \in PoolPut(pool.buffers, pool.over, id) :
          pool' = [pool EXCEPT
             !.ops = @ + 1, !.op = "Put", !.id = id,
             !.from = "",
             !.buffers = r.buffers, !.over = r.over,
             !.out = @ \ {id}]
    /\ UNCHANGED <<callVars, authVars, epVars, norm, emb>>

\* A pool of *buffer after any number of calls: n buffers wait in the
\* channel and k more are borrowed; a pool of *Buffer as newBufferPool()
\* made it.
RingInit ==
    /\ CallIdle /\ AuthIdle /\ EpIdle
    /\ norm = [pc |-> "off"]
    /\ emb = [pc |-> "off"]
    /\ \E variant \in {"buffer", "Buffer"} :
       \E n \in 0..BuffersCap, k \in 0..MaxOut :
          /\ variant = "Buffer" => (n = 0 /\ k = 0)
          /\ pool = [pc |-> "ring", variant |-> variant,
                     buffers |-> [i \in 1..n |-> i], over |-> {},
                     out |-> (n + 1)..(n + k), made |-> n + k,
                     ops |-> 0, op |-> "", id |-> 0, from |-> ""]

RingSpec == RingInit /\ [][RingGet \/ RingPut]_vars

\* C33: the channel never holds more than 100 buffers; a Put with the
\* channel full puts the buffer into the sync.Pool and any other Put into
\* the channel; a Get with a buffer in the channel takes the first of them;
\* and both always have an outcome, whatever the channel holds.
C33_BoundedRing ==
    /\ [](pool.pc = "ring" =>
            /\ Len(pool.buffers) <= 100
            /\ PoolGet(pool.buffers, pool.over, pool.made,
                       PoolElem(pool.variant), PoolElem(pool.variant)) # {}
            /\ \A id \in pool.out :
                  PoolPut(pool.buffers, pool.over, id) # {})
    /\ [][(pool.pc = "ring" /\ pool'.pc = "ring" /\ pool'.ops = pool.ops + 1)
            => /\ pool'.op = "Put" =>
                    IF Len(pool.buffers) = 100
                    THEN /\ pool'.buffers = pool.buffers
                         /\ pool'.over = pool.over \cup {pool'.id}
                    ELSE /\ pool'.buffers = Append(pool.buffers, pool'.id)
                         /\ pool'.over = pool.over
               /\ (pool'.op = "Get" /\ pool.buffers # <<>>) =>
                    /\ pool'.id = Head(pool.buffers)
                    /\ pool'.buffers = Tail(pool.buffers)
                    /\ pool'.over = pool.over]_vars

\* A Put found the channel full and the buffer went to the sync.Pool;
\* the Get after it took the head of the channel.
C33_Witness ==
    /\ pool.pc = "ring"
    /\ pool.op = "Get"
    /\ pool.from = "ring"
    /\ Len(pool.buffers) = 99
    /\ pool.over # {}

\* C34: a Get of the pool of *Buffer never fails: with an empty channel it
\* returns a *Buffer from the sync.Pool, a new one when that is empty.
C34_GetNeverFails ==
    pool.pc # "panic"

\* ------------------------------------------------------------------------
\* C35
\* ------------------------------------------------------------------------
\* s is the beginning of t.
IsPrefix(s, t) == Len(s) <= Len(t) /\ s = SubSeq(t, 1, Len(s))

\* C35: of a body whose last line has no line feed, that line is never
\* handed to the loop body and its payload is never sent; and with no
\* [DONE] among the lines before it the loop leaves through the error of
\* the read, which is the last message on its channel, also when that
\* last line is the sentinel.
C35_UnterminatedLineDropped ==
    wireOpen =>
       /\ nRead <= Len(wire) - 1
       /\ IsPrefix(DataOf(InnerSent), PayloadsOf(1, Len(wire) - 1))
       /\ (loopPC \in {"closing", "exited"}
             /\ \A i \in 1..(Len(wire) - 1) : ~IsDoneLine(wire[i]))
            => /\ exitVia = "err"
               /\ InnerSent # <<>>
               /\ IsErrMsg(InnerSent[Len(InnerSent)])

\* The body ended in an unterminated sentinel after a payload line; the
\* loop sent the payload, then the error of the end of the body, and left.
C35_Witness ==
    /\ wireOpen
    /\ Len(wire) = 2
    /\ wire[1] = LineJ1
    /\ wire[2] = LineDone
    /\ loopPC = "exited"
    /\ exitVia = "err"
    /\ InnerSent = <<StreamRecv(<<"J1">>, NilErr),
                     StreamRecv(<<>>, PlainErr(wireEnd))>>

\* ------------------------------------------------------------------------
\* C36
\* ------------------------------------------------------------------------
\* C36: stream's channel holds one message at most, and of the payload
\* lines the loop has read at most two have not been received from the
\* channel: the one in the channel and the one the loop is sending.
C36_ProducerBounded ==
    /\ Len(responses) <= 1
    /\ Len(PayloadsOf(1, nRead)) - Len(DataOf(got)) <= 2
    /\ Len(PayloadsOf(1, nRead)) - Len(DataOf(got)) = 2
          => (Len(responses) = 1 /\ loopPC = "send")

\* The loop waits with the second payload while the first is in the channel.
C36_Witness ==
    /\ loopPC = "send"
    /\ Len(responses) = 1
    /\ got = <<>>
    /\ nRead = 2
    /\ Len(PayloadsOf(1, nRead)) = 2
    /\ ~ctxDone

\* ------------------------------------------------------------------------
\* embeddings.Client: SetParams while Call runs
\* ------------------------------------------------------------------------
\* Most calls of SetParams followed.
MaxStores == 3

\* SetParams writing into the CallParams the pointer already points to.
SetParamsStore_InPlace(heap, ptr, params) ==
    IF ptr = 0 THEN [heap |-> Append(heap, params), ptr |-> Len(heap) + 1]
    ELSE [heap |-> [heap EXCEPT ![ptr] = params], ptr |-> ptr]

\* c.CallParams.Store(&params): params is SetParams' own copy, a new
\* variable heap gets; the pointer is swapped to it in one step.
SetParamsStore(heap, ptr, params) ==
    [heap |-> Append(heap, params), ptr |-> Len(heap) + 1]

\* The fields of a CallParams, in the order a copy reads them.
ParamFields == <<"User", "Type", "Model">>

\* (*Client).SetParams
RaceSetParams ==
    /\ emb.pc = "race"
    /\ emb.sets < MaxStores
    /\ \E params \in SomeParams :
          LET r == SetParamsStore(emb.heap, emb.ptr, params)
          IN  emb' = [emb EXCEPT !.heap = r.heap, !.ptr = r.ptr,
                                 !.sets = @ + 1,
                                 !.stored = @ \cup {params}]
    /\ UNCHANGED <<callVars, authVars, epVars, norm, pool>>

\* Call without WithCallParams: callOptions.CallParams = CallParams{};
\* p := c.CallParams.Load()
RaceLoad(q) ==
    /\ emb.pc = "race"
    /\ emb.call[q].pc = "idle"
    /\ emb.begun < MaxRequests
    /\ emb' = [emb EXCEPT
          !.begun = @ + 1,
          !.call[q] = [pc |-> IF emb.ptr = 0 THEN "req" ELSE "copy",
                       p |-> emb.ptr, n |-> 0,
                       v |-> CallParams("", "", "")]]
    /\ UNCHANGED <<callVars, authVars, epVars, norm, pool>>

\* if p != nil { callOptions.CallParams = *p }: the copy reads the fields
\* of *p one after the other.
RaceCopy(q) ==
    /\ emb.pc = "race"
    /\ emb.call[q].pc = "copy"
    /\ LET f == ParamFields[emb.call[q].n + 1]
       IN  emb' = [emb EXCEPT
              !.call[q].v[f] = emb.heap[emb.call[q].p][f],
              !.call[q].n = @ + 1,
              !.call[q].pc = IF emb.call[q].n + 1 = Len(ParamFields)
                             THEN "req" ELSE "copy"]
    /\ UNCHANGED <<callVars, authVars, epVars, norm, pool>>

\* req := callOptions.CallParams.toEmbeddingsRequest(); ... c.rest.Embeddings
RaceRequest(q) ==
    /\ emb.pc = "race"
    /\ emb.call[q].pc = "req"
    /\ emb' = [emb EXCEPT
          !.reqs = @ \cup {toEmbeddingsRequest(emb.call[q].v, <<"text">>)},
          !.call[q] = [pc |-> "idle", p |-> 0, n |-> 0,
                       v |-> CallParams("", "", "")]]
    /\ UNCHANGED <<callVars, authVars, epVars, norm, pool>>

\* embeddings.New has made the Client: no CallParams stored.
RaceInit ==
    /\ CallIdle /\ AuthIdle /\ EpIdle
    /\ norm = [pc |-> "off"]
    /\ pool = [pc |-> "off"]
    /\ emb = [pc |-> "race", heap |-> <<>>, ptr |-> 0, sets |-> 0,
              stored |-> {}, begun |-> 0, reqs |-> {},
              call |-> [q \in Procs |->
                          [pc |-> "idle", p |-> 0, n |-> 0,
                           v |-> CallParams("", "", "")]]]

RaceNext ==
    \/ RaceSetParams
    \/ \E q \in Procs : RaceLoad(q) \/ RaceCopy(q) \/ RaceRequest(q)

RaceSpec == RaceInit /\ [][RaceNext]_vars

\* C37: the parameters of every request a Call has made, with SetParams
\* running beside it, are the zero defaults or those one call of SetParams
\* stored, whole: never fields of two of them.
C37_NoTornParams ==
    emb.pc = "race" =>
       \A r \in emb.reqs :
          \E c \in emb.stored \cup {CallParams("", "", "")} :
             r.User = c.User /\ r.Type = c.Type /\ r.Model = c.Model

\* A Call loaded the pointer, SetParams stored other parameters while the
\* Call was copying, and the request carries the parameters stored first.
C37_Witness ==
    /\ emb.pc = "race"
    /\ emb.sets >= 2
    /\ Len(emb.heap) >= 2
    /\ emb.heap[1] # emb.heap[2]
    /\ \E q \in Procs :
          /\ emb.call[q].pc = "req"
          /\ emb.call[q].p = 1
          /\ emb.ptr = 2
          /\ emb.call[q].v = emb.heap[1]

\* ------------------------------------------------------------------------
\* buffer: Reset, Read and Close on one buffer
\* ------------------------------------------------------------------------
\* The byte slices a buffer is reset with.
ByteSlices == UNION {[1..n -> {"x", "y"}] : n \in 0..MaxBody}

\* buff.Reset(B), with any bytes
BufReset ==
    /\ pool.pc = "buf"
    /\ \E B \in ByteSlices :
          pool' = [pool EXCEPT !.buf = Reset(@, B), !.B = B, !.out = <<>>,
                               !.at = 0, !.err = "none", !.closed = FALSE]
    /\ UNCHANGED <<callVars, authVars, epVars, norm, emb>>

\* n, err := buff.Read(p), with any len(p)
BufRead ==
    /\ pool.pc = "buf"
    /\ \E n \in 0..MaxBody :
          LET r == Read(pool.buf, n)
          IN  pool' = [pool EXCEPT !.buf = r.buf, !.out = @ \o r.data,
                                   !.at = pool.buf.ptr, !.err = r.err]
    /\ UNCHANGED <<callVars, authVars, epVars, norm, emb>>

\* buff.Close()
BufClose ==
    /\ pool.pc = "buf"
    /\ pool' = [pool EXCEPT !.buf = Close(@), !.closed = TRUE,
                            !.err = "none"]
    /\ UNCHANGED <<callVars, authVars, epVars, norm, emb>>

\* &buffer{}
BufInit ==
    /\ CallIdle /\ AuthIdle /\ EpIdle
    /\ norm = [pc |-> "off"]
    /\ emb = [pc |-> "off"]
    /\ pool = [pc |-> "buf", buf |-> Buffer(<<>>, 0), B |-> <<>>,
               out |-> <<>>, at |-> 0, err |-> "none", closed |-> FALSE]

BufSpec == BufInit /\ [][BufReset \/ BufRead \/ BufClose]_vars

\* C38: for a buffer reset with B and not closed since, the position is
\* between 0 and len(B), the bytes the Reads have returned so far are the
\* bytes of B before the position (all of B at io.EOF), and a Read
\* returns io.EOF exactly when it finds the position at len(B); after
\* Close the buffer has no bytes and the position 0.
C38_BufferReads ==
    pool.pc = "buf" =>
       /\ ~pool.closed =>
             /\ 0 <= pool.buf.ptr /\ pool.buf.ptr <= Len(pool.B)
             /\ pool.out = SubSeq(pool.B, 1, pool.buf.ptr)
             /\ pool.err # "none" =>
                   /\ pool.err = "io.EOF" <=> pool.at = Len(pool.B)
                   /\ pool.err = "io.EOF" => pool.out = pool.B
       /\ pool.closed => pool.buf = Buffer(<<>>, 0)

\* Three bytes were read by a Read of two and a Read of one, and the next
\* Read returned io.EOF.
C38_Witness ==
    /\ pool.pc = "buf"
    /\ ~pool.closed
    /\ Len(pool.B) = 3
    /\ pool.out = pool.B
    /\ pool.at = 3
    /\ pool.err = "io.EOF"

====
